---- MODULE Spec2Model ----
(***************************************************************************)
(* A model of the prediction side of the image classifier: the Predictor   *)
(* (predictImage, predictBatch, formatPredictions, generateConfusionMatrix,*)
(* calculateMetrics), the ModelManager registry it reads, and the          *)
(* DatasetManager class list it takes class names from.                    *)
(*                                                                         *)
(* JavaScript runs one job at a time: the code between two awaits is one   *)
(* atomic step, and each await is a point where any other handler may run. *)
(* Probabilities are exact numbers; they are written here as integers in   *)
(* units of 1/ProbUnit, and the ratios of calculateMetrics as fractions.   *)
(***************************************************************************)
EXTENDS Integers, Sequences, FiniteSets, TLC

\* ------------------------------------------------------------------ bounds
\* Trainer instances ever created in one run.
MaxInst == 2
\* Longest list handed to predictBatch.
MaxBatch == 2

\* ------------------------------------------------------- program constants
\* slice(0, 5): the number of pairs formatPredictions keeps.
TopN == 5

\* The registry's keys, in the insertion order of the object literal, which
\* is the order Object.entries lists them in.
Kinds == <<"logisticRegression", "randomForest", "cnn">>
KindSet == {Kinds[i] : i \in 1..Len(Kinds)}

\* null, for a registry slot and for "no instance".
Null == 0
Inst == 1..MaxInst

\* The messages of the errors the code raises.
ErrInProgress == "Prediction already in progress"
ErrInvalidUrl == "Invalid image data URL"
ErrLoadImage == "Failed to load image"
NoError == "none"

\* Inputs of predictImage: a data URL, and the empty string (falsy).
ValidUrl == "data:image"
Inputs == {ValidUrl, ""}

\* Names a user may give a class (non-empty strings of at most 50 chars).
ClassNameSet == {"cat"}

VARIABLES
    models,        \* ModelManager.models: kind -> trainer instance or Null
    created,       \* how many trainer instances have been constructed
    isTrained,     \* trainer.isTrained of each instance
    classes,       \* DatasetManager.classes: the class names, in order
    isPredicting,  \* Predictor.isPredicting
    call,          \* per caller: the frame of its predictImage invocation
    delivered,     \* the settlement last handed to App.makePrediction
    batch,         \* the predictBatch invocation
    fmt,           \* a formatPredictions call: its arguments and its result
    gcm,           \* a generateConfusionMatrix call: arguments and result
    met,           \* a calculateMetrics call: its argument and its result
    evaluationResults, \* ModelManager.evaluationResults: kind -> results
    savedModels,   \* ModelManager.savedModels: the descriptors, in order
    disposeCalls,  \* how often dispose() was called on each trainer instance
    ret,           \* what the last accessor or failed ModelManager call gave
    held,          \* the containers a caller got from the copying accessors
    rf,            \* a RandomForestTrainer: its fields and its train() call
    rfRet,         \* what the last call on that trainer returned or threw
    ext,           \* an extractFeatures call: its images and its result
    classObjs,     \* DatasetManager.classes[i]: its id, its images.length
    storedDataset, \* DatasetManager.dataset: the prepared images and labels
    isTraining,    \* TrainingUI.isTraining and ModelManager.isTraining
    run,           \* the trainModel invocations: the frame of each
    trainAll,      \* the trainAllModels invocation
    trainedOn      \* per trainer instance: the dataset it was built for

\* The calls of the pure methods, which the operations below leave alone.
pureVars == <<fmt, gcm, met, ext>>
\* The state the pure methods' calls leave alone (formatPredictions only
\* reads its arguments; isPredicting is the Predictor's only field).
\* The rest of the ModelManager, which Predictor and DatasetManager never touch.
mgrVars == <<evaluationResults, savedModels, disposeCalls, ret, held>>
\* The RandomForestTrainer under study.
rfVars == <<rf, rfRet>>
\* The training side: the DatasetManager's images and prepared dataset, and
\* the TrainingUI.
uiVars == <<classObjs, storedDataset, isTraining, run, trainAll, trainedOn>>
appVars == <<models, created, isTrained, classes, isPredicting, call, delivered, batch,
             mgrVars, rfVars, uiVars>>

vars == <<models, created, isTrained, classes, isPredicting, call, delivered,
          batch, fmt, gcm, met, evaluationResults, savedModels, disposeCalls,
          ret, held, rf, rfRet, ext, classObjs, storedDataset, isTraining, run,
          trainAll, trainedOn>>

\* ------------------------------------------------------ formatPredictions
\* The value handed in as `probabilities`: an array of numbers, or a value
\* that !probabilities || !Array.isArray(probabilities) catches.
Arr(items) == [isArray |-> TRUE, items |-> items]
NotArray == [isArray |-> FALSE, items |-> <<>>]

\* classNames[index] || `Class ${index}`, index counted from 0 as in the code.
ClassNameAt(classNames, index) ==
    IF index + 1 <= Len(classNames) THEN classNames[index + 1]
    ELSE "Class " \o ToString(index)

\* .map((probability, index) => ({className, probability})): a new array.
MapPairs(probabilities, classNames) ==
    [i \in 1..Len(probabilities) |->
        [className |-> ClassNameAt(classNames, i - 1),
         probability |-> probabilities[i]]]

\* The comparator turned round (a.probability - b.probability): ascending.
InsertAsc(sorted, x) ==
    LET k == Cardinality({i \in 1..Len(sorted) :
                            sorted[i].probability <= x.probability})
    IN SubSeq(sorted, 1, k) \o <<x>> \o SubSeq(sorted, k + 1, Len(sorted))

\* An unstable sort: x goes before the pairs equal to it.
InsertDescUnstable(sorted, x) ==
    LET k == Cardinality({i \in 1..Len(sorted) :
                            sorted[i].probability > x.probability})
    IN SubSeq(sorted, 1, k) \o <<x>> \o SubSeq(sorted, k + 1, Len(sorted))

\* Where the stable descending sort puts x among the already ordered pairs:
\* after every pair whose probability is not smaller (b.probability -
\* a.probability <= 0 keeps the earlier one first).
InsertDesc(sorted, x) ==
    LET k == Cardinality({i \in 1..Len(sorted) :
                            sorted[i].probability >= x.probability})
    IN SubSeq(sorted, 1, k) \o <<x>> \o SubSeq(sorted, k + 1, Len(sorted))

\* .sort((a, b) => b.probability - a.probability): Array.prototype.sort is
\* stable, so it is the insertion of the elements in their order.
RECURSIVE SortDescFrom(_, _, _)
SortDescFrom(pairs, i, acc) ==
    IF i > Len(pairs) THEN acc
    ELSE SortDescFrom(pairs, i + 1, InsertDesc(acc, pairs[i]))

SortDesc(pairs) == SortDescFrom(pairs, 1, <<>>)

\* .slice(0, 5)
SliceTop(pairs) == SubSeq(pairs, 1, IF Len(pairs) < TopN THEN Len(pairs) ELSE TopN)

formatPredictions(probabilities, classNames) ==
    IF ~probabilities.isArray
    THEN <<[className |-> "Invalid prediction", probability |-> 0]>>
    ELSE SliceTop(SortDesc(MapPairs(probabilities.items, classNames)))

\* ------------------------------------------------------------ the backends
\* What a backend's predict may resolve to, in quarters.
ProbVectors == {<<1, 3>>}
\* endTime - startTime of the two performance.now() readings.
InferenceTimes == {2}

\* The settlements of `await model.predict(imageDataUrl)`. The logistic
\* regression and random forest trainers rethrow what their pipeline
\* raises; CNNTrainer.predict catches everything and resolves to [0].
PredictOutcomes(kind) ==
    LET resolved(P) == {[ok |-> TRUE, probabilities |-> p, time |-> t,
                         message |-> NoError] : p \in P, t \in InferenceTimes}
        rejected == {[ok |-> FALSE, probabilities |-> <<>>, time |-> 0,
                      message |-> ErrLoadImage]}
    IN IF kind = "cnn" THEN resolved(ProbVectors \cup {<<0>>})
       ELSE resolved(ProbVectors) \cup rejected

\* ------------------------------------------------------------ predictImage
\* The callers of predictImage: App.makePrediction (the upload handler),
\* which awaits the result and keeps it; WebcamUI.captureImage (the capture
\* button), which starts the call and does not await it; and predictBatch.
Upload == "upload"
Capture == "capture"
Callers == {Upload, Capture}
BatchCaller == "batch"
AllCallers == Callers \cup {BatchCaller}

\* A frame of predictImage. pc is "idle" (no invocation), "awaiting" (at the
\* await of the predict of kind number `at`), "returned" or "threw".
\* `invoked` (the kinds whose predict was called) and `seen` (what the
\* registry slot held when each kind was reached) record the run's history.
IdleFrame ==
    [pc |-> "idle", input |-> "", entries |-> [k \in KindSet |-> Null],
     classNames |-> <<>>, at |-> 0, predictions |-> <<>>, error |-> NoError,
     invoked |-> {}, seen |-> <<>>]

\* The guard left out: every call is let in.
InFlightGuardOff == FALSE

\* if (this.isPredicting): the single-flight guard.
InFlightGuard == isPredicting

\* !imageDataUrl || typeof imageDataUrl !== 'string'
InvalidInput(imageDataUrl) == imageDataUrl = ""

NotTrainedRecord(type) ==
    [type |-> type,
     predictions |-> <<[className |-> "Model not trained", probability |-> 0]>>,
     inferenceTime |-> 0, error |-> NoError]

ErrorRecord(type, message) ==
    [type |-> type,
     predictions |-> <<[className |-> "Prediction Error", probability |-> 0]>>,
     inferenceTime |-> 0, error |-> message]

ResultRecord(type, outcome, classNames) ==
    [type |-> type,
     predictions |-> formatPredictions(Arr(outcome.probabilities), classNames),
     inferenceTime |-> outcome.time, error |-> NoError]

\* What the registry says of a kind now.
SlotStatus(type) ==
    IF models[type] = Null THEN "empty"
    ELSE IF isTrained[models[type]] THEN "trained" ELSE "untrained"

\* The isTrained test left out.
ModelUsableUntrained(model) == model # Null

\* model && model.isTrained, for the model the loop holds.
ModelUsable(model) == model # Null /\ isTrained[model]

\* The for loop over Object.entries(this.modelManager.models) from kind
\* number i on, up to the next await or to `return predictions`. The entries
\* were listed when the loop started; isTrained is read when a kind is reached.
\* The locals (classNames, the entries) end with the call.
RECURSIVE RunLoop(_, _)
RunLoop(f, i) ==
    IF i > Len(Kinds)
    THEN [f EXCEPT !.pc = "returned", !.at = 0, !.classNames = <<>>,
                   !.entries = IdleFrame.entries]
    ELSE LET type == Kinds[i]
             g == [f EXCEPT !.seen = Append(@, SlotStatus(type))]
         IN IF ModelUsable(f.entries[type])
            THEN [g EXCEPT !.pc = "awaiting", !.at = i,
                           !.invoked = @ \cup {type}]
            ELSE RunLoop([g EXCEPT !.predictions =
                                      Append(@, NotTrainedRecord(type))], i + 1)

\* predictImage from its call to its first await or its settlement.
predictImageEnter(imageDataUrl) ==
    LET f == [IdleFrame EXCEPT !.input = imageDataUrl]
    IN IF InFlightGuard
       THEN [f EXCEPT !.pc = "threw", !.error = ErrInProgress]
       ELSE IF InvalidInput(imageDataUrl)
       THEN [f EXCEPT !.pc = "threw", !.error = ErrInvalidUrl]
       ELSE RunLoop([f EXCEPT !.classNames = classes, !.entries = models], 1)

\* The catch around the predict left out: a failing backend fails the call.
predictImageResumeNoCatch(f, outcome) ==
    IF outcome.ok
    THEN RunLoop([f EXCEPT !.predictions =
                     Append(@, ResultRecord(Kinds[f.at], outcome, f.classNames))],
                 f.at + 1)
    ELSE [f EXCEPT !.pc = "threw", !.error = outcome.message, !.at = 0,
                   !.classNames = <<>>, !.entries = IdleFrame.entries]

\* predictImage resumed by the settlement of the predict it awaits.
predictImageResume(f, outcome) ==
    LET type == Kinds[f.at]
        rec == IF outcome.ok THEN ResultRecord(type, outcome, f.classNames)
               ELSE ErrorRecord(type, outcome.message)
    IN RunLoop([f EXCEPT !.predictions = Append(@, rec)], f.at + 1)

\* The flag cleared by every settlement, the guard's rejection included.
FlagAfterAlwaysCleared(f) == f.pc = "awaiting"

\* this.isPredicting after a step that left the frame as f: set on entry,
\* cleared by `finally`, untouched by a call the guard rejected.
FlagAfter(f) ==
    IF f.pc = "awaiting" THEN TRUE
    ELSE IF f.pc = "threw" /\ f.error = ErrInProgress THEN isPredicting
    ELSE FALSE

\* What makePrediction is handed when its predictImage settles.
Settlement(c, f) ==
    [caller |-> c, pc |-> f.pc, predictions |-> f.predictions, error |-> f.error,
     invoked |-> f.invoked, seen |-> f.seen]

NoSettlement == Settlement("none", IdleFrame)

\* No call of a pure method has been made.
NoCall == [done |-> FALSE]
PureIdle == fmt = NoCall /\ gcm = NoCall /\ met = NoCall /\ ext = NoCall

\* The fraction num/den of two integers, den > 0.
Frac(num, den) == [num |-> num, den |-> den]
Zero == Frac(0, 1)

\* this.model = null, and the model trainRandomForest resolves with.
NoModel == [isNull |-> TRUE, trees |-> <<>>, accuracy |-> Zero]
ForestModel(trees, accuracy) ==
    [isNull |-> FALSE, trees |-> trees, accuracy |-> accuracy]

\* No dataset has been handed to train().
NoDataset == [given |-> FALSE, hasImages |-> FALSE, images |-> <<>>,
              labels |-> <<>>]

\* new RandomForestTrainer(); pc is the position of its train() call,
\* reports and progress the number and the values of its onProgress calls.
NewTrainer == [model |-> NoModel, isTrained |-> FALSE, features |-> <<>>,
               labels |-> <<>>, classNames |-> <<>>, pc |-> "new",
               dataset |-> NoDataset, reports |-> 0, progress |-> <<>>]
NoForestReturn == [op |-> "none", threw |-> FALSE, message |-> "",
                   probabilities |-> <<>>, accuracy |-> Zero]
ForestIdle == rf = NewTrainer /\ rfRet = NoForestReturn

\* this.dataset = {images: [], labels: []}
EmptyDataset == [images |-> <<>>, labels |-> <<>>]
\* No trainModel invocation: pc is "idle"; "training" and "evaluating" are
\* the awaits of model.train and model.evaluate; the rest are the ways the
\* call settles. `model` is the trainer the call constructed, `evaluation`
\* what its model.evaluate resolved to.
IdleRun == [pc |-> "idle", modelType |-> "", model |-> Null, evaluation |-> Null]
\* No trainAllModels invocation; `started` lists the kinds whose trainModel
\* it has called.
IdleAll == [pc |-> "idle", started |-> <<>>]
\* The bound on trainModel invocations whose frames are kept side by side.
MaxRuns == 2
Runs == 1..MaxRuns
\* A DatasetManager whose classes have no images yet, and a TrainingUI just
\* constructed.
TrainingIdle ==
    /\ classObjs = [i \in 1..Len(classes) |-> [id |-> i - 1, images |-> 0]]
    /\ storedDataset = EmptyDataset
    /\ isTraining = [ui |-> FALSE, manager |-> FALSE]
    /\ run = [r \in Runs |-> IdleRun]
    /\ trainAll = IdleAll
    /\ trainedOn = [i \in Inst |-> <<>>]

\* this.evaluationResults = {}: an object without keys.
NoEntries == [k \in {} |-> 0]
\* Nothing has been returned or thrown yet.
NoReturn == [op |-> "none", type |-> "", threw |-> FALSE, value |-> Null,
             answer |-> ""]
\* The caller holds no container yet.
NoneHeld == [saved |-> [items |-> <<>>, shared |-> FALSE],
             evaluations |-> [items |-> NoEntries, shared |-> FALSE],
             last |-> "none"]
ManagerIdle ==
    /\ evaluationResults = NoEntries
    /\ savedModels = <<>>
    /\ disposeCalls = [i \in Inst |-> 0]
    /\ ret = NoReturn
    /\ held = NoneHeld

\* predictBatch: `taken` items have been taken by the for-of loop.
IdleBatch == [pc |-> "idle", items |-> <<>>, taken |-> 0, results |-> <<>>]

\* ------------------------------------------------------------------ Init
Init ==
    /\ models = [k \in KindSet |-> Null]
    /\ created = 0
    /\ isTrained = [i \in Inst |-> FALSE]
    /\ classes = <<>>
    /\ isPredicting = FALSE
    /\ call = [c \in AllCallers |-> IdleFrame]
    /\ delivered = NoSettlement
    /\ batch = IdleBatch
    /\ ManagerIdle
    /\ ForestIdle
    /\ TrainingIdle
    /\ PureIdle

\* --------------------------------------------------------- DatasetManager
\* addClass(className) with a fresh name: the new class gets id = length.
AddClass(className) ==
    /\ \A i \in 1..Len(classes) : classes[i] # className
    /\ classes' = Append(classes, className)
    /\ classObjs' = Append(classObjs, [id |-> Len(classes), images |-> 0])
    /\ UNCHANGED <<models, created, isTrained, isPredicting, call, delivered, batch,
                 pureVars, storedDataset, isTraining, run, trainAll, trainedOn, rfVars,
                 mgrVars>>

\* The ids left as they were.
RenumberNot(objs) == objs

\* this.classes.forEach((c, i) => c.id = i)
Renumber(objs) == [i \in 1..Len(objs) |-> [objs[i] EXCEPT !.id = i - 1]]

\* deleteClass(className): splice(index, 1), then ids renumbered by position.
DeleteClass(className) ==
    /\ \E index \in 1..Len(classes) :
          /\ classes[index] = className
          /\ classes' = SubSeq(classes, 1, index - 1)
                          \o SubSeq(classes, index + 1, Len(classes))
          /\ classObjs' = Renumber(SubSeq(classObjs, 1, index - 1)
                                    \o SubSeq(classObjs, index + 1, Len(classObjs)))
    /\ UNCHANGED <<models, created, isTrained, isPredicting, call, delivered, batch,
                 pureVars, storedDataset, isTraining, run, trainAll, trainedOn, rfVars,
                 mgrVars>>

\* ----------------------------------------------------------- ModelManager
\* The trainer instance the next `new ...Trainer()` creates.
FreshInst == created + 1

\* The trainer classes that define dispose(): LogisticRegressionTrainer and
\* CNNTrainer do, RandomForestTrainer does not. A slot holds a trainer of the
\* class of its kind.
HasDispose(type) == type # "randomForest"

\* The occupant of the slot stays as it is.
DisposeNothing(type) == disposeCalls

\* if (this.models[type] && this.models[type].dispose) this.models[type].dispose()
DisposeOld(type) ==
    IF models[type] # Null /\ HasDispose(type)
    THEN [disposeCalls EXCEPT ![models[type]] = @ + 1]
    ELSE disposeCalls

\* setModel(type, model), as TrainingUI.trainModel calls it: model is a
\* trainer just constructed (isTrained false) of the class of the kind.
SetModel(type) ==
    /\ FreshInst \in Inst
    /\ created' = FreshInst
    /\ disposeCalls' = DisposeOld(type)
    /\ models' = [models EXCEPT ![type] = FreshInst]
    /\ UNCHANGED <<isTrained, classes, isPredicting, call, delivered, batch,
                 pureVars, uiVars, rfVars, evaluationResults, savedModels, ret, held>>

\* reset(): every slot back to null.
Reset ==
    /\ disposeCalls' = [i \in Inst |->
                          IF \E k \in KindSet : models[k] = i /\ HasDispose(k)
                          THEN disposeCalls[i] + 1 ELSE disposeCalls[i]]
    /\ models' = [k \in KindSet |-> Null]
    /\ evaluationResults' = NoEntries
    /\ isTraining' = [isTraining EXCEPT !.manager = FALSE]
    /\ UNCHANGED <<created, isTrained, classes, isPredicting, call, delivered, batch,
                 pureVars, classObjs, storedDataset, run, trainAll, trainedOn, rfVars,
                 savedModels, ret, held>>

\* A trainer's train() reaching `this.isTrained = true`.
TrainCompletes(i) ==
    /\ i <= created
    /\ ~isTrained[i]
    /\ isTrained' = [isTrained EXCEPT ![i] = TRUE]
    /\ UNCHANGED <<models, created, classes, isPredicting, call, delivered, batch,
                 pureVars, uiVars, rfVars, mgrVars>>

\* -------------------------------------------------------------- Predictor
\* The settlement f of caller c's predictImage reaches makePrediction only.
Handed(c, f) == IF c = Upload THEN Settlement(c, f) ELSE delivered

\* A direct caller invokes predictImage.
PredictImage(c, imageDataUrl) ==
    /\ call[c].pc = "idle"
    /\ LET f == predictImageEnter(imageDataUrl)
       IN /\ isPredicting' = FlagAfter(f)
          /\ IF f.pc = "awaiting"
             THEN call' = [call EXCEPT ![c] = f] /\ UNCHANGED delivered
             ELSE delivered' = Handed(c, f) /\ UNCHANGED call
    /\ UNCHANGED <<models, created, isTrained, classes, batch,
                 pureVars, uiVars, rfVars, mgrVars>>

\* The predict a frame awaits settles, and predictImage runs on to its next
\* await or to its end.
PredictSettles(c, outcome) ==
    /\ call[c].pc = "awaiting"
    /\ outcome \in PredictOutcomes(Kinds[call[c].at])
    /\ LET f == predictImageResume(call[c], outcome)
       IN /\ isPredicting' = FlagAfter(f)
          /\ IF f.pc = "awaiting" \/ c = BatchCaller
             THEN call' = [call EXCEPT ![c] = f] /\ UNCHANGED delivered
             ELSE /\ call' = [call EXCEPT ![c] = IdleFrame]
                  /\ delivered' = Handed(c, f)
    /\ UNCHANGED <<models, created, isTrained, classes, batch,
                 pureVars, uiVars, rfVars, mgrVars>>

\* The entry predictBatch pushes for a settled predictImage.
BatchEntry(f) ==
    IF f.pc = "returned" THEN [predictions |-> f.predictions, error |-> NoError]
    ELSE [predictions |-> <<>>, error |-> f.error]

\* The catch left empty: a failed item leaves no entry.
PushEntryDropFailed(results, f) ==
    IF f.pc = "threw" THEN results ELSE Append(results, BatchEntry(f))

\* batchPredictions.push(prediction) in the try, push({error}) in the catch.
PushEntry(results, f) == Append(results, BatchEntry(f))

\* predictBatch(imageDataUrls) up to its first await: the first item's
\* predictImage is invoked, or the empty list is returned at once.
PredictBatch(imageDataUrls) ==
    /\ batch.pc \in {"idle", "done"}
    /\ IF imageDataUrls = <<>>
       THEN /\ batch' = [IdleBatch EXCEPT !.pc = "done"]
            /\ UNCHANGED <<call, isPredicting>>
       ELSE LET f == predictImageEnter(imageDataUrls[1])
            IN /\ batch' = [pc |-> "running", items |-> imageDataUrls,
                            taken |-> 1, results |-> <<>>]
               /\ call' = [call EXCEPT ![BatchCaller] = f]
               /\ isPredicting' = FlagAfter(f)
    /\ UNCHANGED <<models, created, isTrained, classes, delivered,
                 pureVars, uiVars, rfVars, mgrVars>>

\* predictBatch resumed by the settlement of the predictImage it awaits:
\* the entry is pushed and the next item's predictImage invoked, or the list
\* returned.
BatchResume ==
    /\ batch.pc = "running"
    /\ call[BatchCaller].pc \in {"returned", "threw"}
    /\ LET results == PushEntry(batch.results, call[BatchCaller])
       IN IF batch.taken = Len(batch.items)
          THEN /\ batch' = [batch EXCEPT !.pc = "done", !.results = results]
               /\ call' = [call EXCEPT ![BatchCaller] = IdleFrame]
               /\ UNCHANGED isPredicting
          ELSE LET f == predictImageEnter(batch.items[batch.taken + 1])
               IN /\ batch' = [batch EXCEPT !.results = results,
                                            !.taken = @ + 1]
                  /\ call' = [call EXCEPT ![BatchCaller] = f]
                  /\ isPredicting' = FlagAfter(f)
    /\ UNCHANGED <<models, created, isTrained, classes, delivered,
                 pureVars, uiVars, rfVars, mgrVars>>

\* The lists predictBatch is given.
BatchInputs == UNION {[1..n -> Inputs] : n \in 0..MaxBatch}

Next ==
    \/ \E className \in ClassNameSet : AddClass(className)
    \/ \E className \in ClassNameSet : DeleteClass(className)
    \/ \E type \in KindSet : SetModel(type)
    \/ Reset
    \/ \E i \in Inst : TrainCompletes(i)
    \/ \E c \in Callers, imageDataUrl \in Inputs : PredictImage(c, imageDataUrl)
    \/ \E c \in AllCallers :
          \E outcome \in UNION {PredictOutcomes(k) : k \in KindSet} :
             PredictSettles(c, outcome)

Spec == Init /\ [][Next]_vars

\* predictBatch running beside one direct caller.
NextBatch ==
    \/ Reset
    \/ \E i \in Inst : TrainCompletes(i)
    \/ \E imageDataUrl \in Inputs : PredictImage(Capture, imageDataUrl)
    \/ \E c \in AllCallers :
          \E outcome \in UNION {PredictOutcomes(k) : k \in KindSet} :
             PredictSettles(c, outcome)
    \/ \E imageDataUrls \in BatchInputs : PredictBatch(imageDataUrls)
    \/ BatchResume

\* The registry states a batch may start in: each kind's slot empty, or
\* holding a trainer, trained or not, the instances numbered in kind order.
RegistryStates ==
    {r \in [KindSet -> {"empty", "untrained", "trained"}] :
        Cardinality({k \in KindSet : r[k] # "empty"}) <= MaxInst}

InstOfKind(r, i) ==
    IF r[Kinds[i]] = "empty" THEN Null
    ELSE Cardinality({j \in 1..i : r[Kinds[j]] # "empty"})

InitBatch ==
    \E r \in RegistryStates, names \in {<<>>} \cup {<<n>> : n \in ClassNameSet} :
        /\ models = [k \in KindSet |->
                        InstOfKind(r, CHOOSE i \in 1..Len(Kinds) : Kinds[i] = k)]
        /\ created = Cardinality({k \in KindSet : r[k] # "empty"})
        /\ isTrained = [i \in Inst |->
                           \E j \in 1..Len(Kinds) :
                               InstOfKind(r, j) = i /\ r[Kinds[j]] = "trained"]
        /\ classes = names
        /\ isPredicting = FALSE
        /\ call = [c \in AllCallers |-> IdleFrame]
        /\ delivered = NoSettlement
        /\ batch = IdleBatch
        /\ ManagerIdle
        /\ ForestIdle
        /\ TrainingIdle
        /\ PureIdle

SpecBatch == InitBatch /\ [][NextBatch]_vars

\* ------------------------------------------------------------ properties
\* Every predictImage invocation in sight: the frames, and the settlement
\* makePrediction holds.
Views == {delivered} \cup {Settlement(c, call[c]) : c \in AllCallers}

InFlight == {c \in AllCallers : call[c].pc = "awaiting"}

RejectedByGuard(v) ==
    /\ v.pc = "threw"
    /\ v.error = ErrInProgress
    /\ v.invoked = {}
    /\ v.predictions = <<>>

(* C1: a predictImage invoked while an earlier one has not settled is      *)
(* rejected with 'Prediction already in progress' and invokes no backend's *)
(* predict, so at most one predictImage body is in flight at any time.     *)
C1_SingleFlight ==
    /\ [](Cardinality(InFlight) <= 1)
    /\ [][InFlight # {} =>
            \A c \in AllCallers :
                call[c].pc # "awaiting" => call'[c].pc # "awaiting"]_vars
    /\ [][(InFlight # {} /\ call[Upload].pc = "idle" /\ delivered' # delivered)
            => RejectedByGuard(delivered')]_vars

\* makePrediction was turned away while the capture button's call was in flight.
C1_Witness ==
    /\ call[Capture].pc = "awaiting"
    /\ delivered.caller = Upload
    /\ RejectedByGuard(delivered)

(* C2: an accepted predictImage with a non-empty string input returns one  *)
(* record per backend kind, in the fixed order, and a kind whose registry  *)
(* slot is empty or holds an untrained model when it is reached gets the   *)
(* 'Model not trained' stub without its predict being invoked.             *)
C2_CompleteAndStubbed ==
    \A v \in Views :
        /\ v.pc = "returned" =>
              /\ Len(v.predictions) = Len(Kinds)
              /\ \A j \in 1..Len(Kinds) : v.predictions[j].type = Kinds[j]
        /\ v.pc = "threw" => v.error \in {ErrInProgress, ErrInvalidUrl}
        /\ \A j \in 1..Len(v.seen) :
              v.seen[j] # "trained" =>
                  /\ Kinds[j] \notin v.invoked
                  /\ j <= Len(v.predictions) =>
                        v.predictions[j] = NotTrainedRecord(Kinds[j])

(* C3: when a trained backend's predict fails, predictImage still returns: *)
(* that kind's record is the 'Prediction Error' record with the failure's  *)
(* message and probability 0, and the kinds after it are handled as if the *)
(* failure had not happened.                                               *)
C3_FaultIsolation ==
    /\ \A v \in Views :
          /\ v.pc = "threw" => v.error \in {ErrInProgress, ErrInvalidUrl}
          /\ \A j \in 1..Len(v.predictions) :
                v.predictions[j].error # NoError =>
                    v.predictions[j] = ErrorRecord(Kinds[j], ErrLoadImage)
    /\ \A c \in InFlight :
          \A o1, o2 \in PredictOutcomes(Kinds[call[c].at]) :
              LET g1 == predictImageResume(call[c], o1)
                  g2 == predictImageResume(call[c], o2)
                  rest(g) == SubSeq(g.predictions, call[c].at + 1,
                                    Len(g.predictions))
              IN /\ g1.pc \in {"awaiting", "returned"}
                 /\ g1.pc = g2.pc
                 /\ g1.at = g2.at
                 /\ g1.invoked = g2.invoked
                 /\ rest(g1) = rest(g2)
                 /\ ~o1.ok => g1.predictions[call[c].at]
                                = ErrorRecord(Kinds[call[c].at], o1.message)

\* A result whose first backend failed and whose later backend answered.
C3_Witness ==
    /\ delivered.pc = "returned"
    /\ \E j, k \in 1..Len(Kinds) :
          /\ j < k
          /\ delivered.predictions[j].error = ErrLoadImage
          /\ delivered.predictions[k].error = NoError
          /\ Kinds[k] \in delivered.invoked

\* What predictBatch's entry for an item may be.
EntryFits(entry, item) ==
    \/ entry = [predictions |-> <<>>, error |-> ErrInProgress]
    \/ /\ InvalidInput(item)
       /\ entry = [predictions |-> <<>>, error |-> ErrInvalidUrl]
    \/ /\ ~InvalidInput(item)
       /\ entry.error = NoError
       /\ Len(entry.predictions) = Len(Kinds)

(* C4: predictBatch on n items returns n entries in input order, each the  *)
(* predictImage result of its item or an error object; a failed item       *)
(* (invalid input, or rejected by the single-flight guard) never stops the *)
(* items after it.                                                         *)
C4_BatchIsolation ==
    /\ Len(batch.results) <= Len(batch.items)
    /\ \A i \in 1..Len(batch.results) : EntryFits(batch.results[i], batch.items[i])
    /\ batch.pc = "running" => Len(batch.results) = batch.taken - 1
    /\ batch.pc = "done" => Len(batch.results) = Len(batch.items)

\* A finished batch whose first item the guard rejected and whose second
\* item was predicted.
C4_Witness ==
    /\ batch.pc = "done"
    /\ Len(batch.items) = 2
    /\ batch.results[1].error = ErrInProgress
    /\ batch.results[2].error = NoError
    /\ \E j \in 1..Len(Kinds) :
          batch.results[2].predictions[j].predictions[1].className
              # "Model not trained"


\* ============================================================ pure methods
\* formatPredictions, generateConfusionMatrix and calculateMetrics read only
\* their arguments: each is applied to arguments drawn from bounded sets.

\* Longest probabilities array handed to formatPredictions.
MaxProbs == 6
\* The numbers in a probabilities array, in quarters.
ProbValues == {0, 1, 2}
\* The class-name lists: what DatasetManager.classes can hold.
NameLists == {<<>>, <<"cat">>, <<"dog">>, <<"cat", "dog">>, <<"dog", "cat">>}

FormatInputs ==
    {NotArray} \cup {Arr(p) : p \in UNION {[1..n -> ProbValues] : n \in 0..MaxProbs}}

AppIdle ==
    /\ models = [k \in KindSet |-> Null]
    /\ created = 0
    /\ isTrained = [i \in Inst |-> FALSE]
    /\ classes = <<>>
    /\ isPredicting = FALSE
    /\ call = [c \in AllCallers |-> IdleFrame]
    /\ delivered = NoSettlement
    /\ batch = IdleBatch
    /\ ManagerIdle
    /\ ForestIdle
    /\ TrainingIdle

InitFormat ==
    /\ AppIdle
    /\ ext = NoCall
    /\ \E p \in FormatInputs, names \in NameLists :
          fmt = [done |-> FALSE, probabilities |-> p, classNames |-> names]
    /\ gcm = NoCall
    /\ met = NoCall

\* this.formatPredictions(probabilities, classNames), called any number of
\* times on the same arguments.
FormatPredictions ==
    /\ fmt' = [done |-> TRUE, probabilities |-> fmt.probabilities,
               classNames |-> fmt.classNames,
               out |-> formatPredictions(fmt.probabilities, fmt.classNames)]
    /\ UNCHANGED <<appVars, gcm, met, ext>>

NextFormat == FormatPredictions

SpecFormat == InitFormat /\ [][NextFormat]_vars

\* The pair input index i (from 1) stands for.
PairOf(i) ==
    [className |-> IF i <= Len(fmt.classNames) THEN fmt.classNames[i]
                   ELSE "Class " \o ToString(i - 1),
     probability |-> fmt.probabilities.items[i]]

CountIn(i) ==
    Cardinality({j \in 1..Len(fmt.probabilities.items) : PairOf(j) = PairOf(i)})

CountOut(v) == Cardinality({j \in 1..Len(fmt.out) : fmt.out[j] = v})

(* C5: for an array of n probabilities formatPredictions returns min(n,5)  *)
(* pairs in non-increasing order of probability, each the pair of an input *)
(* index (its class name, or 'Class <i>' when the name is absent), and     *)
(* every omitted probability is <= every returned one.                     *)
C5_TopFive ==
    (fmt.done /\ fmt.probabilities.isArray) =>
        LET n == Len(fmt.probabilities.items)
        IN /\ Len(fmt.out) = IF n < 5 THEN n ELSE 5
           /\ \A j \in 1..(Len(fmt.out) - 1) :
                 fmt.out[j].probability >= fmt.out[j + 1].probability
           /\ \A j \in 1..Len(fmt.out) :
                 \E i \in 1..n : /\ fmt.out[j] = PairOf(i)
                                 /\ CountOut(fmt.out[j]) <= CountIn(i)
           /\ \A i \in 1..n :
                 CountOut(PairOf(i)) < CountIn(i) =>
                     \A j \in 1..Len(fmt.out) :
                         PairOf(i).probability <= fmt.out[j].probability

\* Six probabilities, one omitted, with a missing class name among the kept.
C5_Witness ==
    /\ fmt.done
    /\ fmt.probabilities = Arr(<<0, 2, 1, 2, 1, 1>>)
    /\ fmt.classNames = <<"cat", "dog">>
    /\ Len(fmt.out) = 5
    /\ fmt.out[2].className = "Class 3"

\* How many input indices the stable descending order puts before index i.
RankOf(i) ==
    LET p == fmt.probabilities.items
    IN Cardinality({j \in 1..Len(p) : p[j] > p[i] \/ (p[j] = p[i] /\ j < i)})

(* C6: formatPredictions is deterministic and free of side effects: the    *)
(* output is fixed by the input (equal probabilities keep their input      *)
(* order), a repeated call returns the same output, and a call leaves its  *)
(* arguments and the Predictor's state unchanged.                          *)
C6_DeterministicPure ==
    /\ [](fmt.done /\ fmt.probabilities.isArray =>
            \A i \in 1..Len(fmt.probabilities.items) :
                RankOf(i) < 5 => fmt.out[RankOf(i) + 1] = PairOf(i))
    /\ [][fmt.done => fmt'.out = fmt.out]_vars
    /\ [][/\ fmt'.probabilities = fmt.probabilities
          /\ fmt'.classNames = fmt.classNames
          /\ isPredicting' = isPredicting]_vars

\* Equal probabilities among the kept and the omitted.
C6_Witness ==
    /\ fmt.done
    /\ fmt.probabilities = Arr(<<1, 2, 1, 1, 2, 1>>)
    /\ fmt.classNames = <<"dog">>
    /\ fmt.out[3].className = "dog"
    /\ fmt.out[5].className = "Class 3"

\* --------------------------------------------------------- calculateMetrics
\* Largest confusion matrix drawn, and largest cell of the 1x1 and 2x2 ones
\* (the larger matrices hold cells 0 and 1).
MaxDim == 3
MaxCell == 5

CellValues(n) == IF n <= 2 THEN 0..MaxCell ELSE 0..1
SquareMatrices == UNION {[1..n -> [1..n -> CellValues(n)]] : n \in 0..MaxDim}
\* Matrices whose rows are shorter or longer than the number of rows.
RaggedRows(n) == UNION {[1..k -> 0..1] : k \in 0..(n + 1)}
RaggedMatrices == UNION {[1..n -> RaggedRows(n)] : n \in 1..2}
Matrices == SquareMatrices \cup RaggedMatrices
IsSquare(m) == \A i \in 1..Len(m) : Len(m[i]) = Len(m)

\* confusionMatrix[i][j] || 0
Cell(m, i, j) == IF j <= Len(m[i]) THEN m[i][j] ELSE 0

\* The numbers calculateMetrics returns are quotients of integers, kept as
\* fractions.

\* The guard left out: 0/0 is kept as it comes.
RatioUnguarded(num, den) == Frac(num, den)

\* den > 0 ? num / den : 0
Ratio(num, den) == IF den > 0 THEN Frac(num, den) ELSE Zero

\* The inner loop over j, i # j: the sum of column i (falsePositives) or of
\* row i (falseNegatives) off the diagonal.
RECURSIVE OffDiagonal(_, _, _, _)
OffDiagonal(m, i, j, column) ==
    IF j > Len(m) THEN 0
    ELSE (IF i # j THEN (IF column THEN Cell(m, j, i) ELSE Cell(m, i, j))
                     ELSE 0)
         + OffDiagonal(m, i, j + 1, column)

\* The indices swapped: the row is read for the false positives.
falsePositivesOfRow(m, i) == OffDiagonal(m, i, 1, FALSE)

falsePositives(m, i) == OffDiagonal(m, i, 1, TRUE)
falseNegatives(m, i) == OffDiagonal(m, i, 1, FALSE)
truePositives(m, i) == Cell(m, i, i)

precisionOf(m, i) ==
    Ratio(truePositives(m, i), truePositives(m, i) + falsePositives(m, i))
recallOf(m, i) ==
    Ratio(truePositives(m, i), truePositives(m, i) + falseNegatives(m, i))

\* precision + recall > 0 ? 2 * (precision * recall) / (precision + recall) : 0
f1Of(p, r) ==
    LET sum == Frac(p.num * r.den + r.num * p.den, p.den * r.den)
        twice == Frac(2 * p.num * r.num, p.den * r.den)
    IN IF sum.num > 0 THEN Frac(twice.num * sum.den, twice.den * sum.num)
       ELSE Zero

\* correctPredictions and totalPredictions after the classes i..numClasses.
RECURSIVE Totals(_, _)
Totals(m, i) ==
    IF i > Len(m) THEN [correct |-> 0, total |-> 0]
    ELSE LET t == Totals(m, i + 1)
         IN [correct |-> t.correct + truePositives(m, i),
             total |-> t.total + truePositives(m, i) + falsePositives(m, i)
                         + falseNegatives(m, i)]

calculateMetrics(m) ==
    [accuracy |-> Ratio(Totals(m, 1).correct, Totals(m, 1).total),
     precision |-> [i \in 1..Len(m) |-> precisionOf(m, i)],
     recall |-> [i \in 1..Len(m) |-> recallOf(m, i)],
     f1Score |-> [i \in 1..Len(m) |->
                    f1Of(precisionOf(m, i), recallOf(m, i))],
     support |-> [i \in 1..Len(m) |->
                    truePositives(m, i) + falseNegatives(m, i)]]

InitMetrics ==
    /\ AppIdle
    /\ ext = NoCall
    /\ fmt = NoCall
    /\ gcm = NoCall
    /\ \E m \in Matrices : met = [done |-> FALSE, matrix |-> m]

\* this.calculateMetrics(confusionMatrix)
CalculateMetrics ==
    /\ ~met.done
    /\ met' = [done |-> TRUE, matrix |-> met.matrix,
               out |-> calculateMetrics(met.matrix)]
    /\ UNCHANGED <<appVars, fmt, gcm, ext>>

NextMetrics == CalculateMetrics

SpecMetrics == InitMetrics /\ [][NextMetrics]_vars

\* x = a/b, for fractions with positive denominators.
Is(x, a, b) == x.den > 0 /\ x.num * b = a * x.den

(* C7: calculateMetrics on [[5,0],[1,4]] yields accuracy 9/10, class-0     *)
(* precision 5/6 and class-0 recall 1.                                     *)
C7_Scenario ==
    (met.done /\ met.matrix = <<<<5, 0>>, <<1, 4>>>>) =>
        /\ Is(met.out.accuracy, 9, 10)
        /\ Is(met.out.precision[1], 5, 6)
        /\ Is(met.out.recall[1], 1, 1)

RECURSIVE SumOver(_, _)
SumOver(S, f) ==
    IF S = {} THEN 0
    ELSE LET x == CHOOSE y \in S : TRUE IN f[x] + SumOver(S \ {x}, f)

\* a/b when b > 0, else 0.
IsQuotient(x, a, b) == IF b > 0 THEN Is(x, a, b) ELSE Is(x, 0, 1)

(* C8: for a square matrix of non-negative integers calculateMetrics gives *)
(* per class i TP = m[i][i], FP = the rest of column i, FN = the rest of   *)
(* row i, precision TP/(TP+FP), recall TP/(TP+FN), support = row sum, and  *)
(* accuracy = correct / (total samples + misclassified samples), each      *)
(* ratio being 0 when its denominator is 0.                                *)
C8_Formulas ==
    (met.done /\ IsSquare(met.matrix)) =>
        LET m == met.matrix
            N == 1..Len(m)
            TP(i) == m[i][i]
            FP(i) == SumOver(N \ {i}, [j \in N |-> m[j][i]])
            FN(i) == SumOver(N \ {i}, [j \in N |-> m[i][j]])
            rowSum(i) == SumOver(N, [j \in N |-> m[i][j]])
            samples == SumOver(N, [i \in N |-> rowSum(i)])
            correct == SumOver(N, [i \in N |-> m[i][i]])
        IN /\ \A i \in N :
                 /\ IsQuotient(met.out.precision[i], TP(i), TP(i) + FP(i))
                 /\ IsQuotient(met.out.recall[i], TP(i), TP(i) + FN(i))
                 /\ met.out.support[i] = TP(i) + FN(i)
                 /\ met.out.support[i] = rowSum(i)
           /\ IsQuotient(met.out.accuracy, correct,
                         SumOver(N, [i \in N |-> TP(i) + FP(i) + FN(i)]))
           /\ IsQuotient(met.out.accuracy, correct,
                         samples + (samples - correct))

\* The metrics of a matrix that is not symmetric.
C8_Witness ==
    /\ met.done
    /\ met.matrix = <<<<5, 0>>, <<1, 4>>>>
    /\ Is(met.out.accuracy, 9, 11)
    /\ met.out.support = <<5, 5>>

InUnit(x) == x.den > 0 /\ 0 <= x.num /\ x.num <= x.den

(* C9: for every class precision, recall and F1 lie in [0,1], the accuracy *)
(* lies in [0,1], and F1 is 0 whenever precision and recall are both 0,    *)
(* also for a class with no samples and no predictions.                    *)
C9_Ranges ==
    met.done =>
        /\ InUnit(met.out.accuracy)
        /\ \A i \in 1..Len(met.matrix) :
              /\ InUnit(met.out.precision[i])
              /\ InUnit(met.out.recall[i])
              /\ InUnit(met.out.f1Score[i])
              /\ (Is(met.out.precision[i], 0, 1) /\ Is(met.out.recall[i], 0, 1))
                    => Is(met.out.f1Score[i], 0, 1)

\* A class with no samples and no predictions beside a populated one.
C9_Witness ==
    /\ met.done
    /\ met.matrix = <<<<0, 0>>, <<0, 3>>>>
    /\ Is(met.out.f1Score[1], 0, 1)
    /\ Is(met.out.f1Score[2], 1, 1)

\* --------------------------------------------------- generateConfusionMatrix
\* Most samples (prediction vectors, actual labels) drawn.
MaxSamples == 2

Vectors == UNION {[1..n -> 0..1] : n \in 0..2}
PredictionLists == UNION {[1..n -> Vectors] : n \in 0..MaxSamples}
LabelLists == UNION {[1..n -> (-1)..2] : n \in 0..MaxSamples}
MatrixNames == {<<>>, <<"cat">>, <<"cat", "dog">>}

\* Math.max(...prediction) of a non-empty vector.
RECURSIVE MathMax(_, _)
MathMax(v, n) ==
    IF n = 1 THEN v[1]
    ELSE LET m == MathMax(v, n - 1) IN IF v[n] > m THEN v[n] ELSE m

\* prediction.lastIndexOf(x): the highest 0-based index, -1 when absent.
lastIndexOf(v, x) ==
    IF \E k \in 1..Len(v) : v[k] = x
    THEN (CHOOSE k \in 1..Len(v) :
             v[k] = x /\ \A j \in (k + 1)..Len(v) : v[j] # x) - 1
    ELSE -1

\* prediction.indexOf(x): the lowest 0-based index, -1 when absent.
indexOf(v, x) ==
    IF \E k \in 1..Len(v) : v[k] = x
    THEN (CHOOSE k \in 1..Len(v) :
             v[k] = x /\ \A j \in 1..(k - 1) : v[j] # x) - 1
    ELSE -1

\* An empty vector taken for a vote for class 0.
predictedClassOfEmptyAsZero(prediction) ==
    IF Len(prediction) = 0 THEN 0
    ELSE indexOf(prediction, MathMax(prediction, Len(prediction)))

\* prediction.indexOf(Math.max(...prediction)); Math.max() of no arguments
\* is -Infinity, which no vector holds.
predictedClassOf(prediction) ==
    IF Len(prediction) = 0 THEN -1
    ELSE indexOf(prediction, MathMax(prediction, Len(prediction)))

ZeroMatrix(numClasses) == [a \in 1..numClasses |-> [p \in 1..numClasses |-> 0]]

\* The forEach callback for the sample at 0-based position index.
CountSample(matrix, prediction, index, actualLabels, numClasses) ==
    IF index >= Len(actualLabels) THEN matrix
    ELSE LET predictedClass == predictedClassOf(prediction)
             actualClass == actualLabels[index + 1]
         IN IF /\ actualClass >= 0 /\ actualClass < numClasses
               /\ predictedClass >= 0 /\ predictedClass < numClasses
            THEN [matrix EXCEPT ![actualClass + 1][predictedClass + 1] = @ + 1]
            ELSE matrix

\* predictions.forEach over the first n predictions.
RECURSIVE ForEachSample(_, _, _, _)
ForEachSample(predictions, n, actualLabels, numClasses) ==
    IF n = 0 THEN ZeroMatrix(numClasses)
    ELSE CountSample(ForEachSample(predictions, n - 1, actualLabels, numClasses),
                     predictions[n], n - 1, actualLabels, numClasses)

generateConfusionMatrix(predictions, actualLabels, classNames) ==
    ForEachSample(predictions, Len(predictions), actualLabels, Len(classNames))

InitMatrix ==
    /\ AppIdle
    /\ ext = NoCall
    /\ fmt = NoCall
    /\ met = NoCall
    /\ \E p \in PredictionLists, a \in LabelLists, n \in MatrixNames :
          gcm = [done |-> FALSE, predictions |-> p, actualLabels |-> a,
                 classNames |-> n]

\* this.generateConfusionMatrix(predictions, actualLabels, classNames)
GenerateConfusionMatrix ==
    /\ ~gcm.done
    /\ gcm' = [done |-> TRUE, predictions |-> gcm.predictions,
               actualLabels |-> gcm.actualLabels,
               classNames |-> gcm.classNames,
               out |-> generateConfusionMatrix(gcm.predictions,
                                               gcm.actualLabels,
                                               gcm.classNames)]
    /\ UNCHANGED <<appVars, fmt, met, ext>>

NextMatrix == GenerateConfusionMatrix

SpecMatrix == InitMatrix /\ [][NextMatrix]_vars

\* p (0-based) is the lowest index of the maximum of v.
LowestArgmax(v, p) ==
    /\ p + 1 \in 1..Len(v)
    /\ \A j \in 1..Len(v) : v[j] <= v[p + 1]
    /\ \A j \in 1..p : v[j] < v[p + 1]

\* The samples (1-based positions) that have a prediction and a label.
Paired == 1..(IF Len(gcm.predictions) < Len(gcm.actualLabels)
              THEN Len(gcm.predictions) ELSE Len(gcm.actualLabels))

Skipped(i) ==
    \/ gcm.actualLabels[i] \notin 0..(Len(gcm.classNames) - 1)
    \/ ~\E p \in 0..(Len(gcm.classNames) - 1) : LowestArgmax(gcm.predictions[i], p)

CellSum(matrix) ==
    SumOver(DOMAIN matrix,
            [a \in DOMAIN matrix |-> SumOver(DOMAIN matrix[a], matrix[a])])

(* C10: generateConfusionMatrix returns a numClasses x numClasses matrix   *)
(* of non-negative integers, numClasses = classNames.length, whose cell    *)
(* [a][p] counts the samples with actual label a whose probability vector  *)
(* has its maximum first at index p; with N vectors, N labels and no       *)
(* sample skipped the cells sum to N.                                      *)
C10_CountsSamples ==
    gcm.done =>
        LET numClasses == Len(gcm.classNames)
        IN /\ DOMAIN gcm.out = 1..numClasses
           /\ \A a \in 1..numClasses :
                 /\ DOMAIN gcm.out[a] = 1..numClasses
                 /\ \A p \in 1..numClasses :
                       /\ gcm.out[a][p] \in Nat
                       /\ gcm.out[a][p] =
                            Cardinality({i \in Paired :
                                /\ gcm.actualLabels[i] = a - 1
                                /\ LowestArgmax(gcm.predictions[i], p - 1)})
           /\ (/\ Len(gcm.predictions) = Len(gcm.actualLabels)
               /\ \A i \in Paired : ~Skipped(i))
                 => CellSum(gcm.out) = Len(gcm.predictions)

\* Two samples of class 1, one of them a tie that goes to index 0.
C10_Witness ==
    /\ gcm.done
    /\ gcm.predictions = <<<<1, 1>>, <<0, 1>>>>
    /\ gcm.actualLabels = <<1, 1>>
    /\ gcm.classNames = <<"cat", "dog">>
    /\ gcm.out = <<<<0, 0>>, <<1, 1>>>>
    /\ CellSum(gcm.out) = 2

\* The sample at (1-based) position i is one the callback leaves out: it has
\* no actual label, or its label or its predicted class is out of range.
LeftOut(i) == i > Len(gcm.actualLabels) \/ Skipped(i)

(* C11: in generateConfusionMatrix a sample whose actual label or          *)
(* predicted class lies outside [0,numClasses), an empty probability       *)
(* vector and a prediction without an actual label included, changes no    *)
(* cell and raises nothing: a matrix is returned whose cells sum to the    *)
(* number of samples minus the number left out.                            *)
C11_LenientSkip ==
    gcm.done =>
        LET samples == 1..Len(gcm.predictions)
            numClasses == Len(gcm.classNames)
            After(n) == ForEachSample(gcm.predictions, n, gcm.actualLabels,
                                      numClasses)
        IN /\ gcm.out = After(Len(gcm.predictions))
           /\ \A i \in samples : LeftOut(i) => After(i) = After(i - 1)
           /\ \A i \in samples : ~LeftOut(i) =>
                 CellSum(After(i)) = CellSum(After(i - 1)) + 1
           /\ CellSum(gcm.out) =
                 Len(gcm.predictions) - Cardinality({i \in samples : LeftOut(i)})

\* One counted sample, then an empty probability vector.
C11_Witness ==
    /\ gcm.done
    /\ gcm.predictions = <<<<1, 0>>, <<>>>>
    /\ gcm.actualLabels = <<0, 0>>
    /\ gcm.classNames = <<"cat", "dog">>
    /\ LeftOut(2)
    /\ gcm.out = <<<<1, 0>>, <<0, 0>>>>

\* ------------------------------------------------- ModelManager accessors
\* A kind the registry does not know, and the results handed to
\* setEvaluationResults.
InvalidKinds == {"unknown"}
AnyKind == KindSet \cup InvalidKinds
Evaluations == {1, 2}

\* The check left out.
ValidKindAny(type) == TRUE

\* ['logisticRegression', 'randomForest', 'cnn'].includes(type)
ValidKind(type) == type \in KindSet

\* this.models[type]; a key the object lacks reads as undefined.
Slot(type) == IF type \in DOMAIN models THEN models[type] ELSE Null

Thrown(op, type) ==
    [op |-> op, type |-> type, threw |-> TRUE, value |-> Null, answer |-> ""]
Returned(op, type, value, answer) ==
    [op |-> op, type |-> type, threw |-> FALSE, value |-> value,
     answer |-> answer]

\* What isModelTrained(type) returns: false, or the value of
\* this.models[type] && this.models[type].isTrained === true.
isModelTrained(type) ==
    IF ~ValidKind(type) THEN "false"
    ELSE IF Slot(type) = Null THEN "null"
    ELSE IF isTrained[Slot(type)] THEN "true" ELSE "false"

\* What getEvaluationResults(type) returns: this.evaluationResults[type] || null
getEvaluationResults(type) ==
    IF type \in DOMAIN evaluationResults THEN evaluationResults[type] ELSE Null

\* setModel(type, model) with a type the check rejects.
SetModelRejected(type) ==
    /\ ~ValidKind(type)
    /\ ret' = Thrown("setModel", type)
    /\ UNCHANGED <<models, created, isTrained, classes, isPredicting, call,
                   delivered, batch, pureVars, uiVars, rfVars, evaluationResults, savedModels,
                   disposeCalls, held>>

GetModel(type) ==
    /\ ret' = IF ~ValidKind(type) THEN Thrown("getModel", type)
              ELSE Returned("getModel", type, Slot(type), "")
    /\ UNCHANGED <<models, created, isTrained, classes, isPredicting, call,
                   delivered, batch, pureVars, uiVars, rfVars, evaluationResults, savedModels,
                   disposeCalls, held>>

IsModelTrained(type) ==
    /\ ret' = Returned("isModelTrained", type, Null, isModelTrained(type))
    /\ UNCHANGED <<models, created, isTrained, classes, isPredicting, call,
                   delivered, batch, pureVars, uiVars, rfVars, evaluationResults, savedModels,
                   disposeCalls, held>>

SetEvaluationResults(type, results) ==
    /\ IF ~ValidKind(type)
       THEN /\ ret' = Thrown("setEvaluationResults", type)
            /\ UNCHANGED evaluationResults
       ELSE /\ evaluationResults' =
                  [k \in DOMAIN evaluationResults \cup {type} |->
                      IF k = type THEN results ELSE evaluationResults[k]]
            /\ UNCHANGED ret
    /\ UNCHANGED <<models, created, isTrained, classes, isPredicting, call,
                   delivered, batch, pureVars, uiVars, rfVars, savedModels, disposeCalls, held>>

GetEvaluationResults(type) ==
    /\ ret' = IF ~ValidKind(type) THEN Thrown("getEvaluationResults", type)
              ELSE Returned("getEvaluationResults", type,
                            getEvaluationResults(type), "")
    /\ UNCHANGED <<models, created, isTrained, classes, isPredicting, call,
                   delivered, batch, pureVars, uiVars, rfVars, evaluationResults, savedModels,
                   disposeCalls, held>>

NextManager ==
    \/ \E type \in KindSet : SetModel(type)
    \/ \E type \in InvalidKinds : SetModelRejected(type)
    \/ Reset
    \/ \E i \in Inst : TrainCompletes(i)
    \/ \E type \in AnyKind : GetModel(type)
    \/ \E type \in AnyKind : IsModelTrained(type)
    \/ \E type \in AnyKind, results \in Evaluations :
          SetEvaluationResults(type, results)
    \/ \E type \in AnyKind : GetEvaluationResults(type)

SpecManager == Init /\ [][NextManager]_vars

\* A step that puts a new model into slot k.
Installs(k) == models'[k] # models[k] /\ models'[k] # Null

(* C12: setModel(kind, model) with a recognized kind calls dispose once on *)
(* the previous occupant of that slot, when it is of a class that has      *)
(* dispose, and on nothing else; the slot then holds the new model, which  *)
(* getModel(kind) returns; the other two slots, the evaluation results and *)
(* the saved-model ledger stay as they were, and the previous occupant is  *)
(* in no slot any more.                                                    *)
C12_SetModelReleases ==
    [][\A k \in KindSet : Installs(k) =>
          /\ \A i \in Inst :
                disposeCalls'[i] =
                    IF i = models[k] /\ k \in {"logisticRegression", "cnn"}
                    THEN disposeCalls[i] + 1 ELSE disposeCalls[i]
          /\ models'[k] = created'
          /\ Slot(k)' = created'
          /\ disposeCalls'[created'] = 0
          /\ \A other \in KindSet \ {k} : models'[other] = models[other]
          /\ \A any \in KindSet : models[k] # Null => models'[any] # models[k]
          /\ evaluationResults' = evaluationResults
          /\ savedModels' = savedModels]_vars

\* A logistic-regression trainer replaced by a second one with results stored.
C12_Witness ==
    /\ models["logisticRegression"] = 2
    /\ disposeCalls[1] = 1
    /\ disposeCalls[2] = 0
    /\ "logisticRegression" \in DOMAIN evaluationResults

\* The accessors and mutators that validate the kind by throwing.
Validating ==
    {"setModel", "getModel", "setEvaluationResults", "getEvaluationResults"}

(* C13: setModel, getModel, setEvaluationResults and getEvaluationResults  *)
(* called with a kind outside the three known ones throw and leave the     *)
(* registry as it was; getModel and isModelTrained with a valid kind whose *)
(* slot is empty do not throw and answer with the empty slot / a falsy     *)
(* value; isModelTrained answers true exactly when the slot holds a model  *)
(* whose isTrained is true.                                                *)
C13_KindValidation ==
    [][ret' # ret =>
          LET r == ret'
              known == r.type \in {"logisticRegression", "randomForest", "cnn"}
          IN /\ (r.op \in Validating /\ ~known) =>
                    /\ r.threw
                    /\ UNCHANGED <<models, created, isTrained, disposeCalls,
                                   evaluationResults, savedModels>>
             /\ (r.op \in Validating /\ known) => ~r.threw
             /\ (r.op = "getModel" /\ known) =>
                    /\ r.value = models[r.type]
                    /\ UNCHANGED <<models, created, isTrained, disposeCalls,
                                   evaluationResults, savedModels>>
             /\ r.op = "isModelTrained" =>
                    /\ ~r.threw
                    /\ r.answer = "true" <=>
                         (/\ known
                          /\ models[r.type] # Null
                          /\ isTrained[models[r.type]])
                    /\ (known /\ models[r.type] = Null) =>
                          r.answer \in {"null", "false"}
                    /\ UNCHANGED <<models, created, isTrained, disposeCalls,
                                   evaluationResults, savedModels>>]_vars

\* An unknown kind refused while the registry holds a trained model and
\* results.
C13_Witness ==
    /\ ret = Thrown("setEvaluationResults", "unknown")
    /\ models["randomForest"] # Null
    /\ isTrained[models["randomForest"]]
    /\ models["cnn"] = Null
    /\ DOMAIN evaluationResults = {"randomForest"}

\* ------------------------------------------------------ saved-model ledger
\* Most descriptors saved.
MaxSaved == 2

\* The `type` field of the descriptor each trainer's saveModel() builds.
DescriptorType(type) ==
    CASE type = "logisticRegression" -> "logistic-regression"
      [] type = "randomForest" -> "random-forest"
      [] OTHER -> "cnn"

\* How the trainer's own saveModel() ends once isTrained is true: every
\* trainer returns a new descriptor; LogisticRegressionTrainer reads
\* trainingHistory.history.acc.length, which throws when the history has no
\* `acc` series.
SaveOutcomes(type) ==
    IF type = "logisticRegression" THEN {"returned", "threw"} ELSE {"returned"}

\* Counting from one.
NextIdFromOne == Len(savedModels) + 1

\* modelInfo.id = this.savedModels.length
NextId == Len(savedModels)

SaveModel(type, outcome) ==
    /\ outcome \in SaveOutcomes(type)
    /\ IF isModelTrained(type) # "true" \/ outcome = "threw"
       THEN /\ ret' = Thrown("saveModel", type)
            /\ UNCHANGED savedModels
       ELSE /\ Len(savedModels) < MaxSaved
            /\ savedModels' =
                  Append(savedModels,
                         [type |-> DescriptorType(type), id |-> NextId])
            /\ ret' = Returned("saveModel", type, NextId, "")
    /\ UNCHANGED <<models, created, isTrained, classes, isPredicting, call,
                   delivered, batch, pureVars, uiVars, rfVars, evaluationResults, disposeCalls,
                   held>>

NextLedger ==
    \/ \E type \in KindSet : SetModel(type)
    \/ Reset
    \/ \E i \in Inst : TrainCompletes(i)
    \/ \E type \in AnyKind, outcome \in {"returned", "threw"} :
          SaveModel(type, outcome)

SpecLedger == Init /\ [][NextLedger]_vars

\* The slot of kind type holds a trained model.
HoldsTrained(type) ==
    /\ type \in {"logisticRegression", "randomForest", "cnn"}
    /\ models[type] # Null
    /\ isTrained[models[type]]

(* C14: under setModel, saveModel and reset the saved-model ledger is      *)
(* append-only: a successful saveModel appends one descriptor whose id is  *)
(* the number of descriptors saved before, so every descriptor's id is its *)
(* position (0, 1, 2, ...); no step removes or changes an entry; and       *)
(* saveModel for an untrained, empty or unknown kind throws and leaves the *)
(* ledger as it was.                                                       *)
C14_LedgerAppendOnly ==
    /\ [](\A i \in 1..Len(savedModels) : savedModels[i].id = i - 1)
    /\ [][/\ Len(savedModels') \in {Len(savedModels), Len(savedModels) + 1}
          /\ SubSeq(savedModels', 1, Len(savedModels)) = savedModels
          /\ Len(savedModels') = Len(savedModels) + 1 =>
                /\ savedModels'[Len(savedModels')].id = Len(savedModels)
                /\ ret' = Returned("saveModel", ret'.type, Len(savedModels), "")
                /\ HoldsTrained(ret'.type)
          /\ (ret' # ret /\ ret'.op = "saveModel" /\ ~HoldsTrained(ret'.type)) =>
                ret'.threw
          /\ (ret' # ret /\ ret'.op = "saveModel" /\ ret'.threw) =>
                savedModels' = savedModels]_vars

\* Two descriptors saved, the registry reset, then a save of an empty kind.
C14_Witness ==
    /\ Len(savedModels) = 2
    /\ savedModels[2].id = 1
    /\ \A k \in KindSet : models[k] = Null
    /\ ret = Thrown("saveModel", "cnn")

\* ------------------------------------------------------ copying accessors
\* A returned container: its entries, and whether it is the very object
\* the ModelManager keeps (so that the caller's writes land in it).
\* return this.savedModels
getSavedModelsShared == [items |-> savedModels, shared |-> TRUE]

\* return [...this.savedModels]
getSavedModels == [items |-> savedModels, shared |-> FALSE]

\* return { ...this.evaluationResults }
getAllEvaluationResults == [items |-> evaluationResults, shared |-> FALSE]

\* What a caller writes into a container it was handed.
ForeignEntry == [type |-> "foreign", id |-> 0]
ForeignResults == 9

\* A ledger of n descriptors, as n successful saveModel calls leave it.
LedgerOf(n) ==
    [i \in 1..n |-> [type |-> DescriptorType(Kinds[(i % 3) + 1]), id |-> i - 1]]

\* States a ModelManager is in after some saveModel and setEvaluationResults
\* calls.
InitCopies ==
    /\ models = [k \in KindSet |-> Null]
    /\ created = 0
    /\ isTrained = [i \in Inst |-> FALSE]
    /\ classes = <<>>
    /\ isPredicting = FALSE
    /\ call = [c \in AllCallers |-> IdleFrame]
    /\ delivered = NoSettlement
    /\ batch = IdleBatch
    /\ PureIdle
    /\ ForestIdle
    /\ TrainingIdle
    /\ disposeCalls = [i \in Inst |-> 0]
    /\ ret = NoReturn
    /\ held = NoneHeld
    /\ \E n \in 0..MaxSaved : savedModels = LedgerOf(n)
    /\ \E keys \in SUBSET {"randomForest", "cnn"} :
          evaluationResults = [k \in keys |-> IF k = "cnn" THEN 2 ELSE 1]

GetSavedModels ==
    /\ held' = [held EXCEPT !.saved = getSavedModels, !.last = "getSavedModels"]
    /\ UNCHANGED <<models, created, isTrained, classes, isPredicting, call,
                   delivered, batch, pureVars, uiVars, rfVars, evaluationResults, savedModels,
                   disposeCalls, ret>>

GetAllEvaluationResults ==
    /\ held' = [held EXCEPT !.evaluations = getAllEvaluationResults,
                            !.last = "getAllEvaluationResults"]
    /\ UNCHANGED <<models, created, isTrained, classes, isPredicting, call,
                   delivered, batch, pureVars, uiVars, rfVars, evaluationResults, savedModels,
                   disposeCalls, ret>>

\* The caller's push, pop and assignment on the array it holds.
SequenceWrites(items) ==
    (IF Len(items) <= MaxSaved THEN {Append(items, ForeignEntry)} ELSE {})
    \cup (IF Len(items) > 0
          THEN {SubSeq(items, 1, Len(items) - 1),
                [items EXCEPT ![1] = ForeignEntry]}
          ELSE {})

\* The caller's assignment and delete on the object it holds.
MapWrites(items) ==
    {[k \in DOMAIN items \cup {"unknown"} |-> IF k = "unknown" THEN ForeignResults
                                               ELSE items[k]]}
    \cup {[k \in DOMAIN items \ {gone} |-> items[k]] : gone \in DOMAIN items}
    \cup {[items EXCEPT ![k] = ForeignResults] : k \in DOMAIN items}

\* The caller changes the array getSavedModels gave it.
WriteHeldSaved ==
    \E written \in SequenceWrites(held.saved.items) :
        /\ written # held.saved.items
        /\ held' = [held EXCEPT !.saved.items = written, !.last = "write"]
        /\ savedModels' = IF held.saved.shared THEN written ELSE savedModels
        /\ UNCHANGED <<models, created, isTrained, classes, isPredicting, call,
                       delivered, batch, pureVars, uiVars, rfVars, evaluationResults,
                       disposeCalls, ret>>

\* The caller changes the object getAllEvaluationResults gave it.
WriteHeldEvaluations ==
    \E written \in MapWrites(held.evaluations.items) :
        /\ written # held.evaluations.items
        /\ held' = [held EXCEPT !.evaluations.items = written, !.last = "write"]
        /\ evaluationResults' =
              IF held.evaluations.shared THEN written ELSE evaluationResults
        /\ UNCHANGED <<models, created, isTrained, classes, isPredicting, call,
                       delivered, batch, pureVars, uiVars, rfVars, savedModels, disposeCalls,
                       ret>>

NextCopies ==
    \/ GetSavedModels
    \/ GetAllEvaluationResults
    \/ WriteHeldSaved
    \/ WriteHeldEvaluations

SpecCopies == InitCopies /\ [][NextCopies]_vars

(* C15: the containers getSavedModels and getAllEvaluationResults return   *)
(* are copies: a caller adding, removing or replacing entries in one       *)
(* changes neither the ledger nor the evaluation results, so later calls   *)
(* of getSavedModels, getAllEvaluationResults and getEvaluationResults     *)
(* return what they would have returned without the writes.                *)
C15_AccessorsCopy ==
    [][/\ (held'.last = "write" /\ held' # held) =>
             /\ savedModels' = savedModels
             /\ evaluationResults' = evaluationResults
             /\ getSavedModels'.items = getSavedModels.items
             /\ getAllEvaluationResults'.items = getAllEvaluationResults.items
             /\ \A k \in KindSet :
                   getEvaluationResults(k)' = getEvaluationResults(k)
       /\ (held'.last = "getSavedModels" /\ held' # held) =>
             /\ held'.saved.items = savedModels
             /\ savedModels' = savedModels
       /\ (held'.last = "getAllEvaluationResults" /\ held' # held) =>
             /\ held'.evaluations.items = evaluationResults
             /\ evaluationResults' = evaluationResults]_vars

\* The object was written to, then the array fetched again after writes to
\* an earlier copy: the ledger still has its two descriptors.
C15_Witness ==
    /\ held.last = "getSavedModels"
    /\ held.saved.items = savedModels
    /\ savedModels = LedgerOf(2)
    /\ "unknown" \in DOMAIN held.evaluations.items
    /\ DOMAIN evaluationResults = {"randomForest", "cnn"}
    /\ "cnn" \in DOMAIN held.evaluations.items
    /\ held.evaluations.items["cnn"] = ForeignResults
    /\ getEvaluationResults("cnn") = 2

\* ----------------------------------------------------- RandomForestTrainer
\* this.numTrees (50 in the source), scaled down, and the numbers of images
\* of the datasets drawn.
numTrees == 2
DataSizes == {1, 2}
\* trainDecisionTree(features, labels, depth = 0, maxDepth = 10)
maxDepth == 10

\* The images of a dataset, named by what extractImageFeatures does with
\* them: two that decode, to different feature vectors, and one that fails
\* to load. Vectors are scaled to one entry; the fallback vector of
\* extractFeatures is longer than a decoded one, as in the source.
ImageSet == {"dark", "bright", "broken"}
ScaledFeatures(image) == IF image = "dark" THEN <<0>> ELSE <<1>>
ScaledFallback == <<0, 0>>
LabelSet == {0, 1}

\* An entry read past the end of a vector: undefined.
Undef == -1
At(vector, j) == IF j \in 1..Len(vector) THEN vector[j] ELSE Undef
\* x <= t in JavaScript: false when either side is undefined.
Leq(x, t) == x # Undef /\ t # Undef /\ x <= t

\* The elements of seq at the positions in S, in order.
RECURSIVE Pick(_, _, _)
Pick(seq, S, i) ==
    IF i > Len(seq) THEN <<>>
    ELSE (IF i \in S THEN <<seq[i]>> ELSE <<>>) \o Pick(seq, S, i + 1)

\* Object.keys(counts): integer keys come in ascending order.
RECURSIVE SortedKeys(_)
SortedKeys(S) ==
    IF S = {} THEN <<>>
    ELSE LET least == CHOOSE x \in S : \A y \in S : x <= y
         IN <<least>> \o SortedKeys(S \ {least})

\* counts[label] after labels.forEach(...)
CountsOf(labels) ==
    [v \in {labels[i] : i \in DOMAIN labels} |->
        Cardinality({i \in DOMAIN labels : labels[i] = v})]

\* The first of the keys with the largest count wins.
RECURSIVE ReduceFirst(_, _, _)
ReduceFirst(keys, counts, n) ==
    IF n = 1 THEN keys[1]
    ELSE LET a == ReduceFirst(keys, counts, n - 1)
         IN IF counts[a] >= counts[keys[n]] THEN a ELSE keys[n]

\* keys.reduce((a, b) => counts[a] > counts[b] ? a : b) over the first n keys
RECURSIVE Reduce(_, _, _)
Reduce(keys, counts, n) ==
    IF n = 1 THEN keys[1]
    ELSE LET a == Reduce(keys, counts, n - 1)
         IN IF counts[a] > counts[keys[n]] THEN a ELSE keys[n]

\* A TypeError leaves trainDecisionTree.
Throw == [type |-> "throw"]
Leaf(value, count) == [type |-> "leaf", value |-> value, count |-> count]

\* reduce() of an empty array without an initial value throws.
createLeafNode(labels) ==
    IF Len(labels) = 0 THEN Throw
    ELSE LET counts == CountsOf(labels)
             keys == SortedKeys(DOMAIN counts)
         IN Leaf(Reduce(keys, counts, Len(keys)), Len(labels))

NoSplit == [found |-> FALSE, featureIndex |-> 0, threshold |-> 0]

\* Math.max(1, Math.floor(Math.sqrt(numFeatures)))
NumFeaturesToTry(numFeatures) ==
    LET root == CHOOSE r \in 0..numFeatures :
                    r * r <= numFeatures /\ (r + 1) * (r + 1) > numFeatures
    IN IF root > 1 THEN root ELSE 1

\* What findBestSplit can return. For vectors of up to three entries one
\* feature is tried: null when it has a single value, else a threshold drawn
\* from its values (any gain exceeds the initial bestGain of -1).
BestSplits(features) ==
    LET numFeatures == Len(features[1])
    IN UNION {
         LET values == {At(features[i], featureIndex) : i \in DOMAIN features}
         IN IF Cardinality(values) <= 1 THEN {NoSplit}
            ELSE {[found |-> TRUE, featureIndex |-> featureIndex,
                   threshold |-> threshold] : threshold \in values}
         : featureIndex \in 1..numFeatures}

Node(split, left, right) ==
    IF left.type = "throw" \/ right.type = "throw" THEN Throw
    ELSE [type |-> "node", featureIndex |-> split.featureIndex,
          threshold |-> split.threshold, left |-> left, right |-> right]

\* The trees trainDecisionTree(features, labels, depth) can return.
RECURSIVE trainDecisionTree(_, _, _)
trainDecisionTree(features, labels, depth) ==
    IF Len(features) = 0 \/ depth >= maxDepth THEN {createLeafNode(labels)}
    ELSE IF Cardinality({labels[i] : i \in DOMAIN labels}) = 1
    THEN {Leaf(labels[1], Len(labels))}
    ELSE UNION {
           IF ~split.found THEN {createLeafNode(labels)}
           ELSE LET goLeft == {i \in DOMAIN features :
                                  Leq(At(features[i], split.featureIndex),
                                      split.threshold)}
                    goRight == DOMAIN features \ goLeft
                IN {Node(split, left, right) :
                      left \in trainDecisionTree(Pick(features, goLeft, 1),
                                                 Pick(labels, goLeft, 1),
                                                 depth + 1),
                      right \in trainDecisionTree(Pick(features, goRight, 1),
                                                  Pick(labels, goRight, 1),
                                                  depth + 1)}
           : split \in BestSplits(features)}

\* The trees one round of trainRandomForest can build: a bootstrap sample
\* of numSamples random indices, then trainDecisionTree on it.
TreesOf(features, labels) ==
    UNION {trainDecisionTree([j \in DOMAIN features |-> features[index[j]]],
                             [j \in DOMAIN features |-> labels[index[j]]], 0)
           : index \in [DOMAIN features -> DOMAIN features]}

RECURSIVE traverseTree(_, _)
traverseTree(features, tree) ==
    IF tree.type = "leaf" THEN tree.value
    ELSE IF Leq(At(features, tree.featureIndex), tree.threshold)
    THEN traverseTree(features, tree.left)
    ELSE traverseTree(features, tree.right)

\* votes[prediction] after the loop over the trees
VotesOf(features, trees) ==
    CountsOf([t \in DOMAIN trees |-> traverseTree(features, trees[t])])

\* Object.keys(votes).reduce((a, b) => votes[a] > votes[b] ? parseInt(a)
\* : parseInt(b)): with a single key the callback never runs and the key, a
\* string, is returned as it is.
predictInstance(features, trees) ==
    LET votes == VotesOf(features, trees)
        keys == SortedKeys(DOMAIN votes)
    IN [value |-> Reduce(keys, votes, Len(keys)), isString |-> Len(keys) = 1]

\* prediction === labels[i]
StrictEquals(prediction, label) ==
    ~prediction.isString /\ prediction.value = label

calculateAccuracy(features, labels, trees) ==
    Frac(Cardinality({i \in DOMAIN features :
            StrictEquals(predictInstance(features[i], trees), labels[i])}),
         Len(features))

\* The datasets handed to train(): none, one without images, one with no
\* image, and those prepareTrainingData builds (a label per image).
Dataset(images, labels) ==
    [given |-> TRUE, hasImages |-> TRUE, images |-> images, labels |-> labels]
Datasets ==
    {NoDataset, [NoDataset EXCEPT !.given = TRUE], Dataset(<<>>, <<>>)}
    \cup UNION {{Dataset(images, labels) :
                    images \in [1..n -> ImageSet], labels \in [1..n -> LabelSet]}
                : n \in DataSizes}

\* The check left out.
NoTrainingDataNever(dataset) == FALSE

\* !dataset || !dataset.images || dataset.images.length === 0
NoTrainingData(dataset) ==
    ~dataset.given \/ ~dataset.hasImages \/ Len(dataset.images) = 0

\* Math.max(...labels)
RECURSIVE MaxLabel(_, _)
MaxLabel(labels, n) ==
    IF n = 1 THEN labels[1]
    ELSE LET m == MaxLabel(labels, n - 1) IN IF labels[n] > m THEN labels[n] ELSE m
\* The number of different labels.
NumClassesDistinct(labels) == Cardinality({labels[i] : i \in DOMAIN labels})

\* Math.max(...labels) + 1
\* (of no labels it is -Infinity, which as an array length or a loop bound
\* is no class at all)
NumClasses(labels) ==
    IF Len(labels) = 0 THEN 0 ELSE MaxLabel(labels, Len(labels)) + 1

\* Array.from({length: numClasses}, (_, i) => `Class ${i}`)
ClassNamesFor(numClasses) ==
    [i \in 1..numClasses |-> "Class " \o ToString(i - 1)]

\* What extractFeatures returns for the images, at the scale of this
\* section: a decoded image's vector, or the fallback for one that fails.
ScaledExtract(images) ==
    [i \in DOMAIN images |->
        IF images[i] = "broken" THEN ScaledFallback ELSE ScaledFeatures(images[i])]
\* The onProgress calls of extractFeatures: one per image that decoded.
ExtractReports(images) ==
    Cardinality({i \in DOMAIN images : images[i] # "broken"})

\* The values extractFeatures hands to onProgress, (i + 1) / images.length * 50
\* after each image that decoded (i counts from 0).
ExtractProgress(images) ==
    Pick([i \in DOMAIN images |-> Frac(i * 50, Len(images))],
         {i \in DOMAIN images : images[i] # "broken"}, 1)

\* The offset of 50 left out.
TreeProgressFromZero(built) == [i \in 1..built |-> Frac(i * 50, numTrees)]

\* The values trainRandomForest hands to onProgress after each of the first
\* `built` trees: 50 + ((i + 1) / this.numTrees * 50).
TreeProgress(built) ==
    [i \in 1..built |-> Frac(50 * numTrees + i * 50, numTrees)]

ForestThrown(op, message) ==
    [op |-> op, threw |-> TRUE, message |-> message, probabilities |-> <<>>,
     accuracy |-> Zero]
ForestReturned(op, probabilities, accuracy) ==
    [op |-> op, threw |-> FALSE, message |-> "", probabilities |-> probabilities,
     accuracy |-> accuracy]

ErrNoData == "No training data available"
ErrNotTrained == "Model not trained yet"

\* All but the trainer under study.
restVars == <<models, created, isTrained, classes, isPredicting, call,
              delivered, batch, mgrVars, pureVars, uiVars>>

\* train(dataset, onProgress) is called, on a trainer just constructed
\* (TrainingUI.trainModel), and runs to its first await or to its throw.
RfTrainBegins(dataset) ==
    /\ rf.pc = "new"
    /\ IF NoTrainingData(dataset)
       THEN /\ rf' = [rf EXCEPT !.pc = "failed"]
            /\ rfRet' = ForestThrown("train", ErrNoData)
       ELSE /\ rf' = [rf EXCEPT !.classNames =
                                    ClassNamesFor(NumClasses(dataset.labels)),
                                !.pc = "training", !.dataset = dataset]
            /\ UNCHANGED rfRet
    /\ UNCHANGED restVars

\* The rest of train(): the features are extracted, the trees built and the
\* accuracy computed; or a tree's construction throws after `built` trees.
RfTrainEnds ==
    /\ rf.pc = "training"
    /\ LET features == ScaledExtract(rf.dataset.images)
           labels == rf.dataset.labels
           all == TreesOf(features, labels)
           good == all \ {Throw}
       IN \/ \E trees \in [1..numTrees -> good] :
                /\ rf' = [rf EXCEPT
                            !.features = features, !.labels = labels,
                            !.model = ForestModel(trees,
                                        calculateAccuracy(features, labels, trees)),
                            !.isTrained = TRUE, !.pc = "trained",
                            !.reports = ExtractReports(rf.dataset.images) + numTrees,
                            !.progress = ExtractProgress(rf.dataset.images)
                                           \o TreeProgress(numTrees)]
                /\ rfRet' = ForestReturned("train", <<>>, rf'.model.accuracy)
          \/ \E built \in 0..(numTrees - 1) :
                /\ Throw \in all
                /\ built > 0 => good # {}
                /\ rf' = [rf EXCEPT
                            !.features = features, !.labels = labels,
                            !.pc = "failed",
                            !.reports = ExtractReports(rf.dataset.images) + built,
                            !.progress = ExtractProgress(rf.dataset.images)
                                           \o TreeProgress(built)]
                /\ rfRet' = ForestThrown("train", "TypeError")
    /\ UNCHANGED restVars

\* What predict() computes from the features of a decoded image.
predictProbabilities(features) ==
    LET votes == VotesOf(features, rf.model.trees)
        totalTrees == Len(rf.model.trees)
    IN [i \in 1..NumClasses(rf.labels) |->
           Frac(IF (i - 1) \in DOMAIN votes THEN votes[i - 1] ELSE 0, totalTrees)]

\* predict(imageDataUrl)
RfPredict(image) ==
    /\ rfRet' = IF ~rf.isTrained THEN ForestThrown("predict", ErrNotTrained)
                ELSE IF image = "broken"
                THEN ForestThrown("predict", ErrLoadImage)
                ELSE ForestReturned("predict",
                                    predictProbabilities(ScaledFeatures(image)),
                                    Zero)
    /\ UNCHANGED <<rf, restVars>>

\* evaluate(testImages, testLabels), with the training data as TrainingUI
\* passes it.
RfEvaluate ==
    /\ rfRet' = IF ~rf.isTrained THEN ForestThrown("evaluate", ErrNotTrained)
                ELSE ForestReturned("evaluate", <<>>,
                        calculateAccuracy(ScaledExtract(rf.dataset.images),
                                          rf.dataset.labels, rf.model.trees))
    /\ UNCHANGED <<rf, restVars>>

\* The trainer's saveModel()
RfSaveModel ==
    /\ rfRet' = IF ~rf.isTrained THEN ForestThrown("saveModel", ErrNotTrained)
                ELSE ForestReturned("saveModel", <<>>, rf.model.accuracy)
    /\ UNCHANGED <<rf, restVars>>

NextForest ==
    \/ \E dataset \in Datasets : RfTrainBegins(dataset)
    \/ RfTrainEnds
    \/ \E image \in ImageSet : RfPredict(image)
    \/ RfEvaluate
    \/ RfSaveModel

SpecForest == Init /\ [][NextForest]_vars

(* C16: train on a missing or empty dataset throws 'No training data       *)
(* available', calls onProgress not once and leaves the trainer as it was  *)
(* constructed (isTrained false, model null), so that predict, evaluate    *)
(* and saveModel on it throw 'Model not trained yet'.                      *)
C16_NoTrainingData ==
    /\ [][(rf.pc = "new" /\ rf'.pc = "failed") =>
             /\ rfRet' = ForestThrown("train", "No training data available")
             /\ rf'.reports = 0
             /\ ~rf'.isTrained
             /\ rf'.model.isNull
             /\ [rf' EXCEPT !.pc = "new"] = rf]_vars
    /\ [][(rf.pc = "new" /\ rf'.pc # "new") =>
             (rf'.pc = "failed" <=>
                 \/ ~rf'.dataset.given
                 \/ ~rf'.dataset.hasImages
                 \/ rf'.dataset.images = <<>>)]_vars
    /\ [][(rf.pc = "failed" /\ rf.dataset = NoDataset /\ rfRet' # rfRet) =>
             /\ rfRet'.op \in {"predict", "evaluate", "saveModel"}
             /\ rfRet' = ForestThrown(rfRet'.op, "Model not trained yet")
             /\ rf' = rf]_vars

\* train refused, then predict refused.
C16_Witness ==
    /\ rf = [NewTrainer EXCEPT !.pc = "failed"]
    /\ rfRet = ForestThrown("predict", "Model not trained yet")

\* The feature vectors a prediction is asked for.
ProbeVectors == {<<0>>, <<1>>, <<0, 0>>, <<1, 1>>}

(* C17: on a successfully trained forest, for every feature vector,        *)
(* predict's vector has length 1 + the largest training label, its entry c *)
(* is (trees voting c) / (number of trees) in ascending class index, every *)
(* tree votes for a label in [0,numClasses), the entries sum to 1, and a   *)
(* prediction of the same features stays the same.                         *)
C17_VoteShares ==
    /\ [](rf.isTrained =>
            LET trees == rf.model.trees
                largest == CHOOSE m \in {rf.labels[i] : i \in DOMAIN rf.labels} :
                               \A i \in DOMAIN rf.labels : rf.labels[i] <= m
            IN \A v \in ProbeVectors :
                  LET p == predictProbabilities(v)
                      voting(c) == {t \in DOMAIN trees :
                                       traverseTree(v, trees[t]) = c}
                  IN /\ Len(trees) = numTrees
                     /\ Len(p) = 1 + largest
                     /\ \A t \in DOMAIN trees :
                           traverseTree(v, trees[t]) \in 0..largest
                     /\ \A c \in 0..largest :
                           p[c + 1] = Frac(Cardinality(voting(c)), numTrees)
                     /\ SumOver(DOMAIN p, [i \in DOMAIN p |-> p[i].num]) = numTrees)
    /\ [][rf.isTrained =>
             \A v \in ProbeVectors :
                predictProbabilities(v)' = predictProbabilities(v)]_vars
    /\ [][(rfRet' # rfRet /\ rfRet'.op = "predict" /\ ~rfRet'.threw) =>
             /\ rf.isTrained
             /\ \E v \in ProbeVectors :
                   rfRet'.probabilities = predictProbabilities(v)]_vars

\* A forest whose two trees disagree on the image predicted.
C17_Witness ==
    /\ rf.isTrained
    /\ rfRet.op = "predict"
    /\ rfRet.probabilities = <<Frac(1, 2), Frac(1, 2)>>

\* c has the most votes in the tally, and is the lowest class that has.
LowestMajority(votes, c) ==
    /\ c \in DOMAIN votes
    /\ \A d \in DOMAIN votes : votes[d] <= votes[c]
    /\ \A d \in DOMAIN votes : votes[d] = votes[c] => c <= d

(* C18: the class predictInstance returns for a feature vector has the     *)
(* most tree votes and is the lowest class index among those that have;    *)
(* the majority label of a leaf built from a label multiset follows the    *)
(* same rule.                                                              *)
C18_LowestIndexTie ==
    rf.isTrained =>
        /\ \A v \in ProbeVectors :
              LowestMajority(VotesOf(v, rf.model.trees),
                             predictInstance(v, rf.model.trees).value)
        /\ \A labels \in UNION {[1..n -> LabelSet] : n \in DataSizes} :
              LowestMajority(CountsOf(labels), createLeafNode(labels).value)

(* C19: the accuracy recorded in the forest is (samples of the original    *)
(* dataset whose majority-vote class over all trees is their true label)   *)
(* / (size of the dataset), also when all trees vote for the same class.   *)
C19_TrainingAccuracy ==
    rf.isTrained =>
        LET trees == rf.model.trees
            hits == {i \in DOMAIN rf.features :
                        predictInstance(rf.features[i], trees).value = rf.labels[i]}
        IN /\ rf.features = ScaledExtract(rf.dataset.images)
           /\ rf.labels = rf.dataset.labels
           /\ rf.model.accuracy = Frac(Cardinality(hits), Len(rf.features))

\* -------------------------------------------------------- extractFeatures
\* Most images of a batch, and the pixels of the canvas (16 x 16 in the
\* source), scaled down.
MaxImages == 2
CanvasPixels == 2
\* new Array(4).fill(0), Math.floor(r / 64), new Array(24).fill(0)
HistogramBins == 4
BinWidth == 64
FallbackLength == 24
MaxChannel == 255

\* The colours of a pixel: red, green, blue.
Palette == {<<0, 0, 0>>, <<255, 0, 0>>, <<70, 130, 255>>}
\* An image either fails to load or is drawn to the canvas as pixels.
BrokenImage == [loads |-> FALSE, pixels |-> <<>>]
Images ==
    {BrokenImage}
    \cup {[loads |-> TRUE, pixels |-> px] : px \in [1..CanvasPixels -> Palette]}

\* rHist / gHist / bHist of channel ch after the loop over the pixels
Histogram(pixels, ch) ==
    [bin \in 1..HistogramBins |->
        Cardinality({i \in DOMAIN pixels : pixels[i][ch] \div BinWidth = bin - 1})]

\* hist.map(val => val / totalPixels)
Normalized(hist, totalPixels) ==
    [bin \in DOMAIN hist |-> Frac(hist[bin], totalPixels)]

RECURSIVE WeightedSum(_, _)
WeightedSum(hist, bin) ==
    IF bin = 0 THEN 0
    ELSE WeightedSum(hist, bin - 1)
         + hist[bin] * ((bin - 1) * BinWidth + BinWidth \div 2)

\* hist.reduce((sum, val, idx) => sum + val * (idx * 64 + 32), 0)
\*   / totalPixels / 255
MeanColor(hist, totalPixels) ==
    Frac(WeightedSum(hist, HistogramBins), totalPixels * MaxChannel)

computeImageFeatures(pixels) ==
    LET totalPixels == Len(pixels)
        rHist == Histogram(pixels, 1)
        gHist == Histogram(pixels, 2)
        bHist == Histogram(pixels, 3)
    IN Normalized(rHist, totalPixels) \o Normalized(gHist, totalPixels)
       \o Normalized(bHist, totalPixels)
       \o <<MeanColor(rHist, totalPixels), MeanColor(gHist, totalPixels),
            MeanColor(bHist, totalPixels)>>

\* new Array(24).fill(0)
ZeroFeatures == [i \in 1..FallbackLength |-> Zero]

\* The loop of extractFeatures: a vector per image, the fallback for an
\* image whose extractImageFeatures rejects.
extractFeatures(images) ==
    [i \in DOMAIN images |->
        IF images[i].loads THEN computeImageFeatures(images[i].pixels)
        ELSE ZeroFeatures]

InitFeatures ==
    /\ AppIdle
    /\ fmt = NoCall
    /\ gcm = NoCall
    /\ met = NoCall
    /\ \E images \in UNION {[1..n -> Images] : n \in 0..MaxImages} :
          ext = [done |-> FALSE, images |-> images]

\* await this.extractFeatures(images, onProgress)
ExtractFeatures ==
    /\ ~ext.done
    /\ ext' = [done |-> TRUE, images |-> ext.images,
               out |-> extractFeatures(ext.images)]
    /\ UNCHANGED <<appVars, fmt, gcm, met>>

NextFeatures == ExtractFeatures

SpecFeatures == InitFeatures /\ [][NextFeatures]_vars

(* C20: all feature vectors extractFeatures returns for a batch have the   *)
(* same length whichever images fail: the zero vector put in for a failed  *)
(* image is as long as the vector of a decoded image, 3 channels x 4       *)
(* histogram bins + 3 channel means; and there is one vector per image, in *)
(* input order.                                                            *)
C20_UniformLength ==
    ext.done =>
        /\ Len(ext.out) = Len(ext.images)
        /\ \A i \in DOMAIN ext.out :
              /\ ext.images[i].loads =>
                    ext.out[i] = computeImageFeatures(ext.images[i].pixels)
              /\ ~ext.images[i].loads =>
                    \A j \in DOMAIN ext.out[i] : ext.out[i][j] = Zero
              /\ Len(ext.out[i]) = 3 * 4 + 3
        /\ \A i, j \in DOMAIN ext.out : Len(ext.out[i]) = Len(ext.out[j])

\* ============================================ DatasetManager and TrainingUI
\* validationRules.minClassSize
minClassSize == 5
\* The names the classes of a training dataset are given.
DatasetNames == {"cat", "dog", "fox"}

\* addImageToClass(className, imageFile) once the FileReader has loaded the
\* file: classObj.images.push(imageData). A class is filled up to the
\* minimum only: validateDataset reads nothing else of the count.
AddImageToClass(className) ==
    /\ \E index \in 1..Len(classes) :
          /\ classes[index] = className
          /\ classObjs[index].images < minClassSize
          /\ classObjs' = [classObjs EXCEPT ![index].images = @ + 1]
    /\ UNCHANGED <<models, created, isTrained, classes, isPredicting, call,
                   delivered, batch, pureVars, storedDataset, isTraining, run,
                   trainAll, trainedOn, rfVars, mgrVars>>

\* No rule checked.
validateDatasetAny == TRUE

\* validateDataset().isValid: no error was pushed.
validateDataset ==
    /\ ~(Len(classes) < 2)
    /\ \A i \in 1..Len(classes) : ~(classObjs[i].images < minClassSize)

\* The images and labels pushed for the classes from number i on: for each
\* class its images in order, each with the class's id as its label.
RECURSIVE PushFrom(_)
PushFrom(i) ==
    IF i > Len(classes) THEN EmptyDataset
    ELSE LET rest == PushFrom(i + 1)
         IN [images |-> [j \in 1..classObjs[i].images |->
                            [class |-> classes[i], id |-> j - 1]] \o rest.images,
             labels |-> [j \in 1..classObjs[i].images |-> classObjs[i].id]
                          \o rest.labels]

\* prepareTrainingData(): what it throws or returns, and this.dataset after.
prepareTrainingData ==
    IF ~validateDataset
    THEN [threw |-> TRUE, value |-> EmptyDataset, dataset |-> storedDataset]
    ELSE [threw |-> FALSE, value |-> PushFrom(1), dataset |-> PushFrom(1)]

\* The class name of each label of the dataset prepared now.
NamesByLabel ==
    [l \in {classObjs[i].id : i \in 1..Len(classes)} |->
        classes[CHOOSE i \in 1..Len(classes) : classObjs[i].id = l]]

\* ------------------------------------------------------------- trainModel
\* A frame of trainModel that has settled.
Settled(f) == f.pc \in {"rejected", "invalid", "failed", "succeeded"}
\* The trainModel runs in flight: isTraining was set, `finally` has not run.
RunsInFlight == {r \in Runs : run[r].pc \in {"training", "evaluating"}}

\* if (this.isTraining): the guard of trainModel and of trainAllModels.
TrainingGuardOff == FALSE
TrainingGuard == isTraining.ui

Flags(value) == [ui |-> value, manager |-> value]

\* trainModel(modelType) from its call to the await of model.train, or to
\* its settlement: the guard, the validation, then isTraining set, the data
\* prepared, the trainer constructed and installed with setModel.
TrainModelBody(r, modelType) ==
    /\ r \notin RunsInFlight
    /\ \A q \in Runs : q < r => q \in RunsInFlight
    /\ IF TrainingGuard
       THEN /\ run' = [run EXCEPT ![r] = [IdleRun EXCEPT !.pc = "rejected",
                                                         !.modelType = modelType]]
            /\ UNCHANGED <<models, created, disposeCalls, storedDataset,
                           isTraining, trainedOn>>
       ELSE IF ~validateDataset
       THEN /\ run' = [run EXCEPT ![r] = [IdleRun EXCEPT !.pc = "invalid",
                                                         !.modelType = modelType]]
            /\ UNCHANGED <<models, created, disposeCalls, storedDataset,
                           isTraining, trainedOn>>
       ELSE IF prepareTrainingData.threw \/ ~ValidKind(modelType)
       THEN \* the catch, then the finally: both flags cleared again
            /\ run' = [run EXCEPT ![r] = [IdleRun EXCEPT !.pc = "failed",
                                                         !.modelType = modelType]]
            /\ storedDataset' = prepareTrainingData.dataset
            /\ isTraining' = Flags(FALSE)
            /\ UNCHANGED <<models, created, disposeCalls, trainedOn>>
       ELSE /\ FreshInst \in Inst
            /\ created' = FreshInst
            /\ storedDataset' = prepareTrainingData.dataset
            /\ disposeCalls' = DisposeOld(modelType)
            /\ models' = [models EXCEPT ![modelType] = FreshInst]
            /\ trainedOn' = [trainedOn EXCEPT ![FreshInst] = NamesByLabel]
            /\ isTraining' = Flags(TRUE)
            /\ run' = [run EXCEPT ![r] = [IdleRun EXCEPT !.pc = "training",
                                                         !.modelType = modelType,
                                                         !.model = FreshInst]]
    /\ UNCHANGED <<isTrained, classes, classObjs, isPredicting, call, delivered,
                   batch, pureVars, rfVars, evaluationResults, savedModels, ret,
                   held>>

\* A training button's handler, or any other caller, invokes trainModel.
TrainModel(r, modelType) ==
    /\ TrainModelBody(r, modelType)
    /\ UNCHANGED trainAll

\* `await model.train(...)` settles. A fulfilled train() has set the
\* trainer's isTrained, and trainModel goes on to call model.evaluate; a
\* rejected one takes trainModel through its catch and its finally.
TrainSettles(r, ok) ==
    /\ run[r].pc = "training"
    /\ IF ok
       THEN /\ isTrained' = [isTrained EXCEPT ![run[r].model] = TRUE]
            /\ run' = [run EXCEPT ![r].pc = "evaluating"]
            /\ UNCHANGED isTraining
       ELSE /\ run' = [run EXCEPT ![r].pc = "failed"]
            /\ isTraining' = Flags(FALSE)
            /\ UNCHANGED isTrained
    /\ UNCHANGED <<models, created, classes, classObjs, isPredicting, call,
                   delivered, batch, pureVars, rfVars, mgrVars, storedDataset,
                   trainAll, trainedOn>>

\* How `await model.evaluate(...)` settles.
EvaluateOutcomes ==
    {[ok |-> TRUE, evaluation |-> e] : e \in Evaluations}
    \cup {[ok |-> FALSE, evaluation |-> Null]}

\* `await model.evaluate(...)` settles: setEvaluationResults, then
\* saveModel(modelType), which throws unless the slot's occupant is trained
\* and its own saveModel() returns; then the finally.
EvaluateSettles(r, outcome, saved) ==
    /\ run[r].pc = "evaluating"
    /\ saved \in SaveOutcomes(run[r].modelType)
    /\ isTraining' = Flags(FALSE)
    /\ IF ~outcome.ok
       THEN /\ run' = [run EXCEPT ![r].pc = "failed"]
            /\ UNCHANGED <<evaluationResults, savedModels>>
       ELSE /\ evaluationResults' =
                  [k \in DOMAIN evaluationResults \cup {run[r].modelType} |->
                      IF k = run[r].modelType THEN outcome.evaluation
                      ELSE evaluationResults[k]]
            /\ IF isModelTrained(run[r].modelType) # "true" \/ saved = "threw"
               THEN /\ run' = [run EXCEPT ![r].pc = "failed",
                                           ![r].evaluation = outcome.evaluation]
                    /\ UNCHANGED savedModels
               ELSE /\ Len(savedModels) < MaxSaved
                    /\ savedModels' =
                          Append(savedModels,
                                 [type |-> DescriptorType(run[r].modelType),
                                  id |-> NextId])
                    /\ run' = [run EXCEPT ![r].pc = "succeeded",
                                           ![r].evaluation = outcome.evaluation]
    /\ UNCHANGED <<models, created, isTrained, classes, classObjs, isPredicting,
                   call, delivered, batch, pureVars, rfVars, disposeCalls, ret,
                   held, storedDataset, trainAll, trainedOn>>

\* cancelTraining()
CancelTraining ==
    /\ isTraining.ui
    /\ isTraining' = Flags(FALSE)
    /\ UNCHANGED <<models, created, isTrained, classes, classObjs, isPredicting,
                   call, delivered, batch, pureVars, rfVars, mgrVars,
                   storedDataset, run, trainAll, trainedOn>>

\* --------------------------------------------------------- trainAllModels
\* trainAllModels() from its call to its first await or to its end. The
\* loop over ['logisticRegression', 'randomForest', 'cnn'] tests
\* `if (!this.isTraining) break` before each trainModel call; no await lies
\* between the guard and the first test, so the first test reads the value
\* the guard read. The await of the loop body is never reached, and there is
\* no step that resumes from it.
TrainAllModels(r) ==
    /\ trainAll.pc # "awaiting"
    /\ IF TrainingGuard
       THEN /\ trainAll' = [pc |-> "rejected", started |-> <<>>]
            /\ UNCHANGED <<models, created, isTrained, classes, isPredicting,
                           call, delivered, batch, pureVars, rfVars, mgrVars,
                           classObjs, storedDataset, isTraining, run, trainedOn>>
       ELSE IF ~isTraining.ui
       THEN /\ trainAll' = [pc |-> "settled", started |-> <<>>]
            /\ UNCHANGED <<models, created, isTrained, classes, isPredicting,
                           call, delivered, batch, pureVars, rfVars, mgrVars,
                           classObjs, storedDataset, isTraining, run, trainedOn>>
       ELSE /\ trainAll' = [pc |-> "awaiting", started |-> <<Kinds[1]>>]
            /\ TrainModelBody(r, Kinds[1])

\* The training side of the application: the dataset is edited, training is
\* started, cancelled and reset, and the awaited trainer calls settle.
NextTraining ==
    \/ \E className \in DatasetNames : DeleteClass(className)
    \/ \E className \in DatasetNames : AddImageToClass(className)
    \/ \E r \in Runs, modelType \in AnyKind : TrainModel(r, modelType)
    \/ \E r \in Runs, ok \in BOOLEAN : TrainSettles(r, ok)
    \/ \E r \in Runs, outcome \in EvaluateOutcomes,
          saved \in {"returned", "threw"} : EvaluateSettles(r, outcome, saved)
    \/ CancelTraining
    \/ \E r \in Runs : TrainAllModels(r)
    \/ Reset

\* A state in which training may start: classes with the names given and
\* numbers of images among those given; nothing trained, nothing in flight.
StartsWith(nameLists, imageCounts) ==
    /\ models = [k \in KindSet |-> Null]
    /\ created = 0
    /\ isTrained = [i \in Inst |-> FALSE]
    /\ \E names \in nameLists :
          /\ classes = names
          /\ \E counts \in [1..Len(names) -> imageCounts] :
                classObjs = [i \in 1..Len(names) |->
                                [id |-> i - 1, images |-> counts[i]]]
    /\ isPredicting = FALSE
    /\ call = [c \in AllCallers |-> IdleFrame]
    /\ delivered = NoSettlement
    /\ batch = IdleBatch
    /\ ManagerIdle
    /\ ForestIdle
    /\ PureIdle
    /\ storedDataset = EmptyDataset
    /\ isTraining = Flags(FALSE)
    /\ run = [r \in Runs |-> IdleRun]
    /\ trainAll = IdleAll
    /\ trainedOn = [i \in Inst |-> <<>>]

\* Each class an image short of the minimum, or at it.
NearMinimum == {minClassSize - 1, minClassSize}

InitTraining == StartsWith({<<"cat">>, <<"cat", "dog">>}, NearMinimum)

SpecTraining == InitTraining /\ [][NextTraining]_vars

\* The dataset edited between training runs that nothing cancels.
NextDataset ==
    \/ \E className \in DatasetNames : DeleteClass(className)
    \/ \E className \in DatasetNames : AddImageToClass(className)
    \/ \E r \in Runs, modelType \in AnyKind : TrainModel(r, modelType)
    \/ \E r \in Runs, ok \in BOOLEAN : TrainSettles(r, ok)
    \/ \E r \in Runs, outcome \in EvaluateOutcomes,
          saved \in {"returned", "threw"} : EvaluateSettles(r, outcome, saved)

InitDataset == StartsWith({<<"cat", "dog">>, <<"cat", "dog", "fox">>}, NearMinimum)

SpecDataset == InitDataset /\ [][NextDataset]_vars

\* Training and prediction side by side on a valid dataset of two classes:
\* the upload handler predicts while models are trained.
NextServe ==
    \/ \E r \in Runs, modelType \in KindSet : TrainModel(r, modelType)
    \/ \E r \in Runs, ok \in BOOLEAN : TrainSettles(r, ok)
    \/ \E r \in Runs, outcome \in EvaluateOutcomes,
          saved \in {"returned", "threw"} : EvaluateSettles(r, outcome, saved)
    \/ PredictImage(Upload, ValidUrl)
    \/ \E outcome \in UNION {PredictOutcomes(k) : k \in KindSet} :
          PredictSettles(Upload, outcome)

InitServe == StartsWith({<<"cat", "dog">>}, {minClassSize})

SpecServe == InitServe /\ [][NextServe]_vars

\* The same while classes are added and deleted; two of the kinds are
\* trained, and every evaluation gives the same result.
NextNames ==
    \/ \E className \in {"cat", "dog"} : AddClass(className)
    \/ \E className \in {"cat", "dog"} : DeleteClass(className)
    \/ \E r \in Runs, modelType \in {"logisticRegression", "cnn"} :
          TrainModel(r, modelType)
    \/ \E r \in Runs, ok \in BOOLEAN : TrainSettles(r, ok)
    \/ \E r \in Runs, outcome \in {o \in EvaluateOutcomes : o.evaluation # 2} :
          EvaluateSettles(r, outcome, "returned")
    \/ PredictImage(Upload, ValidUrl)
    \/ \E outcome \in UNION {PredictOutcomes(k) : k \in KindSet} :
          PredictSettles(Upload, outcome)

SpecNames == InitServe /\ [][NextNames]_vars

\* ------------------------------------------------------------ properties
\* The dataset has at least two classes, each with minClassSize images.
EnoughData ==
    /\ Len(classes) >= 2
    /\ \A i \in 1..Len(classes) : classObjs[i].images >= minClassSize

(***************************************************************************)
(* C21. trainModel starts a training run (constructs and installs a        *)
(* trainer, reaches model.train) only on a dataset with at least two       *)
(* classes that each have minClassSize images. prepareTrainingData fails   *)
(* on any other dataset and leaves this.dataset as it was; on such a       *)
(* dataset it returns as many labels as images, every label at least 0 and *)
(* below the number of classes.                                            *)
(***************************************************************************)
C21_ValidatedTraining ==
    /\ [](LET p == prepareTrainingData
          IN IF EnoughData
             THEN /\ ~p.threw
                  /\ p.dataset = p.value
                  /\ Len(p.value.images) = Len(p.value.labels)
                  /\ \A j \in 1..Len(p.value.labels) :
                        p.value.labels[j] \in 0..(Len(classes) - 1)
             ELSE p.threw /\ p.dataset = storedDataset)
    /\ [][(\/ created' # created
           \/ \E r \in Runs : run'[r].pc = "training" /\ run[r].pc # "training")
          => EnoughData]_vars

\* A run is at model.train, on the dataset prepared for it, after a class
\* was deleted and the ids renumbered.
C21_Witness ==
    /\ \E r \in Runs : run[r].pc = "training"
    /\ Len(storedDataset.labels) >= 3 * minClassSize
    /\ Len(classes) = 2

\* ------------------------------------- more properties of the random forest
\* The tree ends in leaves on every path and is at most maxDepth deep below
\* the given depth.
RECURSIVE LeafTerminated(_, _)
LeafTerminated(tree, depth) ==
    /\ depth <= maxDepth
    /\ tree.type \in {"leaf", "node"}
    /\ tree.type = "node" =>
          /\ LeafTerminated(tree.left, depth + 1)
          /\ LeafTerminated(tree.right, depth + 1)

(***************************************************************************)
(* C22. For a non-empty dataset, whatever the random draws, tree building  *)
(* ends without an error and with numTrees trees, each ending in leaves    *)
(* and at most maxDepth deep: train() fails for want of data only, and a   *)
(* partition left empty by a split becomes a leaf.                          *)
(***************************************************************************)
C22_TreesBuilt ==
    /\ rf.pc = "failed" => Len(rf.dataset.images) = 0
    /\ rf.pc = "trained" =>
          /\ Len(rf.model.trees) = numTrees
          /\ \A i \in 1..numTrees : LeafTerminated(rf.model.trees[i], 0)

\* ----------------------------------------- properties of the training side
\* The step is an invocation of trainModel taking slot r.
Invoked(r) == r \notin RunsInFlight /\ run'[r] # run[r]

(***************************************************************************)
(* C23. Whatever the order of trainModel, trainAllModels and               *)
(* cancelTraining invocations, at most one trainModel run is in flight     *)
(* (isTraining set, finally not yet run); a trainModel invoked while a     *)
(* run is in flight is rejected: it starts no training and leaves the      *)
(* registry and both isTraining flags as they are.                         *)
(***************************************************************************)
C23_SingleRun ==
    /\ [](Cardinality(RunsInFlight) <= 1)
    /\ [][\A r \in Runs :
             Invoked(r) /\ RunsInFlight # {} =>
                /\ run'[r].pc = "rejected"
                /\ models' = models
                /\ isTraining' = isTraining]_vars

\* x < y and x <= y for two fractions.
Less(x, y) == x.num * y.den < y.num * x.den
AtMost(x, y) == x.num * y.den <= y.num * x.den

(***************************************************************************)
(* C24. The values one train() call hands to its progress callback rise    *)
(* strictly and lie above 0 and at most at 100; those of feature           *)
(* extraction are at most 50, those of tree building above 50, one for     *)
(* each tree built; the last value of a run that succeeds is 100.          *)
(***************************************************************************)
C24_Progress ==
    LET values == rf.progress
        low == {i \in DOMAIN values : AtMost(values[i], Frac(50, 1))}
        decoded == {i \in DOMAIN rf.dataset.images :
                       rf.dataset.images[i] # "broken"}
    IN /\ \A i \in DOMAIN values :
             /\ Less(Zero, values[i]) /\ AtMost(values[i], Frac(100, 1))
             /\ i > 1 => Less(values[i - 1], values[i])
       /\ rf.pc \in {"trained", "failed"} =>
             /\ Cardinality(low) = Cardinality(decoded)
             /\ Len(values) = rf.reports
       /\ rf.pc = "trained" =>
             /\ Len(values) - Cardinality(low) = Len(rf.model.trees)
             /\ Len(rf.model.trees) = numTrees
             /\ Is(values[Len(values)], 100, 1)

\* A run that succeeded although one of its two images did not decode.
C24_Witness ==
    /\ rf.pc = "trained"
    /\ Len(rf.dataset.images) = 2
    /\ Len(rf.progress) = 1 + numTrees

\* ------------------------------------------------------ getPredictionStats
\* result.predictions && result.predictions[0].probability > 0; reading
\* .probability of the first element of an empty list throws.
CountsAsTrained(result) == result.predictions[1].probability > 0

\* getPredictionStats(predictions), for the list of the kinds' results in
\* the order of Object.entries. Probabilities are in quarters, and so is the
\* average, a fraction.
getPredictionStats(predictions) ==
    IF \E i \in DOMAIN predictions : Len(predictions[i].predictions) = 0
    THEN [threw |-> TRUE, totalModels |-> 0, trainedModels |-> 0,
          averageConfidence |-> Zero]
    ELSE LET counted == {i \in DOMAIN predictions :
                            CountsAsTrained(predictions[i])}
             top == [i \in DOMAIN predictions |->
                        predictions[i].predictions[1].probability]
         IN [threw |-> FALSE,
             totalModels |-> Len(predictions),
             trainedModels |-> Cardinality(counted),
             averageConfidence |->
                IF Cardinality(counted) > 0
                THEN Frac(SumOver(counted, top), Cardinality(counted))
                ELSE Zero]

(***************************************************************************)
(* C25. For the result predictImage hands to makePrediction,               *)
(* getPredictionStats gives totalModels = the number of kinds in the       *)
(* result, trainedModels = the number of kinds whose backend was trained   *)
(* when predictImage reached it, and averageConfidence = the mean of the   *)
(* top probabilities of those trained backends' records, 0 when there is   *)
(* none.                                                                   *)
(***************************************************************************)
C25_Stats ==
    delivered.pc = "returned" =>
       LET stats == getPredictionStats(delivered.predictions)
           trained == {i \in DOMAIN delivered.predictions :
                          Kinds[i] \in delivered.invoked}
           top == [i \in DOMAIN delivered.predictions |->
                      delivered.predictions[i].predictions[1].probability]
       IN /\ ~stats.threw
          /\ stats.totalModels = Len(delivered.predictions)
          /\ stats.trainedModels = Cardinality(trained)
          /\ IsQuotient(stats.averageConfidence, SumOver(trained, top),
                        Cardinality(trained))

(***************************************************************************)
(* C26. isPredicting is true exactly while an accepted predictImage is in  *)
(* flight: every way the call settles (a result, an invalid input, a       *)
(* failing backend) clears it, the rejection of a reentrant call leaves it *)
(* set, and a predictImage invoked when no call is in flight is not turned *)
(* away by the guard.                                                      *)
(***************************************************************************)
C26_FlagTracksCall ==
    /\ [](isPredicting <=> InFlight # {})
    /\ [][(delivered' # delivered /\ RejectedByGuard(delivered'))
            => isPredicting' = isPredicting /\ isPredicting]_vars
    /\ [][(InFlight = {} /\ delivered' # delivered)
            => ~RejectedByGuard(delivered')]_vars
    /\ [][\A c \in AllCallers :
             (InFlight = {} /\ call[c].pc = "idle" /\ call'[c].pc # "idle")
                => ~RejectedByGuard(call'[c])]_vars

\* The upload's call has settled with a failed backend in its result, and
\* the capture button's call that followed was accepted.
C26_Witness ==
    /\ delivered.pc = "returned"
    /\ \E j \in 1..Len(delivered.predictions) :
          delivered.predictions[j].error # NoError
    /\ call[Capture].pc = "awaiting"
    /\ isPredicting

(***************************************************************************)
(* C27. trainAllModels invoked while no training is in flight, on a valid  *)
(* dataset, runs trainModel for logisticRegression, randomForest and cnn   *)
(* in turn: its invocation starts the logisticRegression run, and it does  *)
(* not settle before it has called trainModel for all three kinds.         *)
(***************************************************************************)
C27_TrainsAll ==
    /\ [][(/\ trainAll' # trainAll
           /\ trainAll.pc # "awaiting"
           /\ RunsInFlight = {} /\ ~isTraining.ui
           /\ EnoughData /\ FreshInst \in Inst)
          => /\ trainAll'.pc = "awaiting"
             /\ \E r \in Runs : /\ run'[r].pc = "training"
                                /\ run'[r].modelType = Kinds[1]]_vars
    /\ [](trainAll.pc = "settled" => trainAll.started = Kinds)

\* The step settles the trainModel call of slot r.
SettlesAt(r) == run'[r] # run[r] /\ Settled(run'[r])

(***************************************************************************)
(* C28. When a trainModel(kind) call that passed the guard settles,        *)
(* TrainingUI.isTraining and ModelManager.isTraining are both false (a     *)
(* rejected call leaves them to the run in flight). If the run succeeded,  *)
(* the slot of the kind holds the instance the run trained,                *)
(* evaluationResults[kind] is the run's evaluation and the call added      *)
(* exactly one descriptor to the ledger; if a step failed or the call was  *)
(* rejected, it left the ledger as it was.                                 *)
(***************************************************************************)
C28_SettledRun ==
    [][\A r \in Runs :
          SettlesAt(r) =>
             LET f == run'[r]
             IN /\ f.pc # "rejected" => isTraining' = Flags(FALSE)
                /\ IF f.pc = "succeeded"
                   THEN /\ models'[f.modelType] = f.model
                        /\ isTrained'[f.model]
                        /\ f.modelType \in DOMAIN evaluationResults'
                        /\ evaluationResults'[f.modelType] = f.evaluation
                        /\ Len(savedModels') = Len(savedModels) + 1
                        /\ SubSeq(savedModels', 1, Len(savedModels)) = savedModels
                   ELSE savedModels' = savedModels]_vars

\* The results the upload's predictImage has gathered: in its frame while it
\* awaits, in what makePrediction was handed once it has settled.
Gathered(frames, handed) ==
    IF frames[Upload].pc = "awaiting" THEN frames[Upload].predictions
    ELSE handed.predictions

\* The registry as the upload's predictImage listed it: Object.entries of
\* the call in flight, or the registry itself for a call made in this step.
Listed(type) ==
    IF call[Upload].pc = "awaiting" THEN call[Upload].entries[type]
    ELSE models[type]

TrainedNames(i) ==
    [l \in 1..Cardinality(DOMAIN trainedOn[i]) |-> trainedOn[i][l - 1]]

(***************************************************************************)
(* C30. Whatever classes are added and deleted between training and        *)
(* prediction, the className predictImage pairs with probability index i   *)
(* of a trained backend is the name of the class whose label was i in the  *)
(* dataset the backend was trained on: the record it builds from the       *)
(* backend's answer is the one formatPredictions gives for those names.    *)
(***************************************************************************)
C30_NamesOfTraining ==
    [][(call[Upload].pc = "awaiting"
        /\ (call' # call \/ delivered' # delivered)) =>
          LET at == call[Upload].at
              type == Kinds[at]
              rec == Gathered(call', delivered')[at]
          IN rec.error = NoError =>
                \E outcome \in PredictOutcomes(type) :
                   /\ outcome.ok
                   /\ rec = ResultRecord(type, outcome,
                                         TrainedNames(call[Upload].entries[type]))]_vars
====
